---- MODULE Spec2Model ----
(***************************************************************************)
(* A model of the two transfer engines of the publication tools:           *)
(*   - acm_dl.py : upload / upload_submission / upload_file /              *)
(*                 commit_submission (the chunked upload to the ACM DL);   *)
(*   - pcs.py    : main / download_files / download_file (the batch        *)
(*                 download from PCS).                                     *)
(* Python strings on which the code computes (DOIs, suffixes, paths, CSV   *)
(* cells) are sequences of one-character strings; strings that are only   *)
(* compared or used as dictionary keys are TLA+ strings.                   *)
(* assert statements are active (the scripts run under plain `python3`):   *)
(* a failed assert, like any uncaught exception, ends the process.         *)
(***************************************************************************)
EXTENDS Integers, Sequences, FiniteSets, TLC

VARIABLES
    \* ---- acm_dl.py ----
    pc,                      \* where the upload run stands
    listing,                 \* the rows of the portal's listing page
    exc,                     \* the uncaught exception that ended the run, or "none"
    raised_in,               \* the function whose statement raised it (the traceback's last frame)
    chunk_size,              \* chunk_size parameter of chunked()
    DOI_FALLBACK,            \* Paper ID -> DOI, loaded from TAPS_CSV
    filetypes,               \* the selected descriptors (rows of <track>_fields.csv)
    ALREADY_UPLOADED_FILES,  \* list of file names built by upload()
    idx,                     \* rows read so far: the row in hand is row idx, counted from 1
    sub,                     \* the row (DictReader dict) being processed
    ft,                      \* position of the for loop over filetypes (1-based)
    doi, doi_part,           \* locals of upload_submission
    token,                   \* local of upload_submission
    localfile,               \* what the file system holds at filepath
    upload_filename,         \* local of upload_submission
    filesize, UPLOAD_PATH, offset, fpos,  \* locals of upload_file; fpos: position of fd
    url,                     \* value returned by upload_file
    net,                     \* requests sent by the current call of upload_submission
    outcomes,                \* what the current call of upload_submission printed
    token_gets,              \* number of token GETs of the whole run
    committed,               \* file names committed in the whole run, in order
    \* ---- pcs.py ----
    dpc,                     \* where the download stands
    dexc,                    \* the uncaught exception that ended the process, or "none"
    mode, start_index,       \* parameters of download_files
    pcs_filetypes,           \* the descriptors selected by the command line
    columns,                 \* the header row of LIST_FILE
    nrows,                   \* len(submissions)
    didx, submission,        \* idx and submission of the loop over the rows
    dft,                     \* position of the loop over filetypes (1-based)
    returned,                \* what download_files returned: <<>> is None, <<i>> is index i
    local,                   \* the local files, by name
    remote,                  \* what the server holds, by resource
    df_url, df_filename,     \* parameters of download_file
    doc,                     \* the open response in download_file
    df_result,               \* what download_file returned
    df_wrote,                \* whether this call opened the local file for writing
    df_seen,                 \* the state of the resource this call was answered with
    df_before,               \* the local file when this call began
    dlog,                    \* the (record, descriptor) pairs of this call of download_files
    dnet,                    \* the urlopen requests of this call of download_files
    calls,                   \* the calls of download_file so far
    list_file,               \* LIST_FILE: whether it exists, its age, which fetch wrote it
    submissions,             \* the rows of LIST_FILE as far as they were read
    mlog                     \* the calls of download_files that main has seen return

uploadVars == <<pc, exc, raised_in, listing, chunk_size, DOI_FALLBACK, filetypes, ALREADY_UPLOADED_FILES,
                idx, sub, ft, doi, doi_part, token, localfile, upload_filename,
                filesize, UPLOAD_PATH, offset, fpos, url, net, outcomes,
                token_gets, committed>>

downloadVars == <<dpc, dexc, mode, start_index, pcs_filetypes, columns, nrows, didx,
                  submission, dft, returned, local, remote, df_url, df_filename, doc,
                  df_result, df_wrote, df_seen, df_before, dlog, dnet, calls,
                  list_file, submissions, mlog>>

vars == <<uploadVars, downloadVars>>

(***************************************************************************)
(* Bounds of the model.                                                    *)
(***************************************************************************)
MaxSubs == 2          \* rows read from <track>_camera_ready.csv
MaxFileSize == 12     \* largest file size tried on upload_file alone
MaxChunk == 5         \* largest chunk_size tried on upload_file alone
MaxRows == 2          \* rows of LIST_FILE
MaxCalls == 2         \* successive calls of download_file on one file
MaxVersions == 2      \* versions of a remote resource
MaxRestarts == 2      \* restarts of download_files by main

(***************************************************************************)
(* Python string functions, on sequences of characters.                    *)
(***************************************************************************)
Max(S) == CHOOSE m \in S : \A n \in S : n <= m
Min2(a, b) == IF a <= b THEN a ELSE b

isspace(c) == c \in {" ", "\t", "\n"}

RECURSIVE lstrip(_)
lstrip(s) == IF s # <<>> /\ isspace(Head(s)) THEN lstrip(Tail(s)) ELSE s

RECURSIVE rstrip(_)
rstrip(s) == IF s # <<>> /\ isspace(s[Len(s)]) THEN rstrip(SubSeq(s, 1, Len(s) - 1)) ELSE s

strip(s) == rstrip(lstrip(s))

startswith(s, p) == Len(s) >= Len(p) /\ SubSeq(s, 1, Len(p)) = p
endswith(s, p) == Len(s) >= Len(p) /\ SubSeq(s, Len(s) - Len(p) + 1, Len(s)) = p
removeprefix(s, p) == IF startswith(s, p) THEN SubSeq(s, Len(p) + 1, Len(s)) ELSE s

\* s.split("/")[-1]
split_last(s) ==
    LET slashes == {i \in 1..Len(s) : s[i] = "/"}
    IN IF slashes = {} THEN s ELSE SubSeq(s, Max(slashes) + 1, Len(s))

(***************************************************************************)
(* Constants of acm_dl.py.                                                 *)
(***************************************************************************)
CHUNK_SIZE == 5 * 1024 * 1024
HTTP_CREATED == 201
HTTP_NO_CONTENT == 204
HTTP_OK == 200
HTTP_SERVER_ERROR == 500       \* stands for every other status a portal may answer
DOI_URL == <<"h","t","t","p","s",":","/","/","d","o","i",".","o","r","g","/">>
DOT_VTT == <<".","v","t","t">>
DOT_MP4 == <<".","m","p","4">>
TRACK_ID == <<"t">>             \* sys.argv[3], one track per run
NoToken == <<>>
NoSub == "None"
NoFile == [exists |-> FALSE, size |-> 0, srt |-> FALSE, path |-> <<>>]
NoLocation == <<>>
NoException == "none"
NoFrame == "none"

(***************************************************************************)
(* Inputs: CSV rows, descriptors, the portal's listing, local files and    *)
(* the portal's answers.                                                   *)
(***************************************************************************)
PaperIDs == { <<"p","1">>, <<"p","2">> }
DoiValues(p) ==
    { IF p = <<"p","1">> THEN DOI_URL \o <<"1","0","/","a">>     \* https://doi.org/10/a
                         ELSE <<"1","0","/","a">>,                \* 10/a
      <<" ">>,                                                    \* blank: the fallback is used
      <<"1","0","/">> }                                           \* nothing after the last /
CellValues == { <<>>, <<"y","e","s">> }
Fields == {"Paper ID", "DOI", "consent", "ready"}
Submissions ==
    UNION { { [f \in Fields |-> CASE f = "Paper ID" -> p [] f = "DOI" -> d
                                  [] f = "consent" -> c [] OTHER -> r] :
                d \in DoiValues(p), c \in CellValues, r \in CellValues } : p \in PaperIDs }
FallbackTables == { (<<"p","1">> :> <<"1","0","/","b">>),
                    (<<"p","1">> :> <<"1","0","/","b">>) @@ (<<"p","2">> :> <<>>) }

Descriptor(suffix, dir, policy, ready) ==
    [suffix |-> suffix, directory |-> dir, upload_to_dl |-> policy, ready_field |-> ready]
Video(policy, ready) == Descriptor(DOT_MP4, <<"V">>, policy, ready)
Preview(policy, ready) == Descriptor(DOT_MP4, <<"P">>, policy, ready)
Captions(policy, ready) == Descriptor(DOT_VTT, <<"C">>, policy, ready)
FiletypeLists ==
    { <<Video("yes", "")>>,
      <<Captions("consent", "ready")>>,
      <<Video("yes", ""), Captions("consent", "")>>,
      <<Video("consent", "ready"), Captions("yes", "")>>,
      <<Video("no", ""), Captions("yes", "ready")>>,
      <<Video("yes", ""), Preview("consent", "")>> }

MaxListing == 1       \* rows of the portal's listing page
ListedNames == { <<"a">> \o DOT_MP4, <<"a">> \o DOT_VTT }
ListingRows == { [f \in {"File Name", "excluded"} |->
                    IF f = "File Name" THEN n ELSE e] : n \in ListedNames, e \in BOOLEAN }
Listings == UNION { [1..n -> ListingRows] : n \in 0..MaxListing }

RunFileSizes == {0, 1, CHUNK_SIZE + 1}
LocalFileStates(path) ==
    {NoFile} \cup { [exists |-> TRUE, size |-> n, srt |-> s, path |-> path] : n \in RunFileSizes,
                      s \in IF endswith(path, DOT_VTT) THEN BOOLEAN ELSE {FALSE} }
\* the portal hands out a fresh token per page and a fresh upload path per
\* initiation
Token(n) == <<"token", n>>
Location(i, j) == <<"/acm/", i, j>>

(***************************************************************************)
(* acm_dl.py: helpers of the upload run.                                   *)
(***************************************************************************)
\* One request as the portal sees it.  sub and ft name the candidate on whose
\* behalf it was sent.
Request(method, target, path, tok, name, off, len, total, status, loc) ==
    [method |-> method, target |-> target, path |-> path, sub |-> idx, ft |-> ft, token |-> tok,
     filename |-> name, offset |-> off, length |-> len, total |-> total,
     status |-> status, location |-> loc, files |-> <<>>]

\* mutant: the pair is appended twice
FilenamesUrls_Twice(name, u) == <<<<name, u>>, <<name, u>>>>
\* upload_submission: the list handed to commit_submission is emptied and
\* given the one pair of the file just uploaded
FilenamesUrls(name, u) == <<<<name, u>>>>
\* commit_submission: one POST with a file-name-k / file-url-k pair for every
\* element of filenames_urls
CommitRequest(filenames_urls, status) ==
    [Request("POST", "SUBMIT_URL", NoLocation, NoToken, filenames_urls[1][1],
             0, 0, 0, status, filenames_urls[1][2])
       EXCEPT !.files = filenames_urls]

Outcome(what) == [sub |-> idx, ft |-> ft, what |-> what]

\* mutant: the excluded rows are returned as well
get_uploaded_submissions_All(rows, include_excluded) == rows
\* get_uploaded_submissions(conf_id, include_excluded)
get_uploaded_submissions(rows, include_excluded) ==
    IF include_excluded THEN rows
    ELSE SelectSeq(rows, LAMBDA d : ~d["excluded"])

\* the list comprehension of upload()
FileNames(rows) == [i \in DOMAIN rows |-> rows[i]["File Name"]]

InList(x, list) == \E i \in DOMAIN list : list[i] = x

\* upload_submission, the ready_field test
NotReady(fts, s) ==
    LET submission_ready_field == fts[1].ready_field
    IN submission_ready_field # "" /\ s[submission_ready_field] = <<>>

\* upload_submission, the DOI of the row: the exception raised, or the DOI
\* and its last part
DoiLookup(s, fallback) ==
    LET d0 == s["DOI"]
        blank == Len(strip(d0)) = 0
    IN IF blank /\ s["Paper ID"] \notin DOMAIN fallback
       THEN [exc |-> "KeyError", doi |-> <<>>, doi_part |-> <<>>]
       ELSE LET d1 == IF blank THEN fallback[s["Paper ID"]] ELSE d0
            IN IF ~(Len(d1) > 0)
               THEN [exc |-> "AssertionError", doi |-> <<>>, doi_part |-> <<>>]
               ELSE LET d2 == removeprefix(d1, DOI_URL)
                        part == split_last(d2)
                    IN IF ~(Len(part) > 0)
                       THEN [exc |-> "AssertionError", doi |-> d2, doi_part |-> part]
                       ELSE [exc |-> NoException, doi |-> d2, doi_part |-> part]

NotToBeUploaded(filetype) == filetype.upload_to_dl = "no"

\* mutant: the agreement field is not looked at
AgreementMissing_Never(filetype, s) == FALSE

AgreementMissing(filetype, s) ==
    /\ filetype.upload_to_dl # "yes"
    /\ s[filetype.upload_to_dl] = <<>>

Filename(s, filetype) == s["Paper ID"] \o filetype.suffix
\* mutant: the suffix of the descriptor is left out
UploadFilename_NoSuffix(part, filetype) == part
UploadFilename(part, filetype) == part \o filetype.suffix
Filepath(s, filetype) ==
    TRACK_ID \o <<"_">> \o filetype.directory \o <<"/">> \o Filename(s, filetype)

\* srt_to_vtt: a caption file in SRT format is rewritten in place as VTT, with
\* some new size; any other file is left as it is
srt_to_vtt(f, newsize) == IF f.srt THEN [f EXCEPT !.size = newsize, !.srt = FALSE] ELSE f
ConvertedSizes(f) == IF f.srt THEN RunFileSizes \ {0} ELSE {f.size}

\* mutant: a token is requested for every file
NeedsToken_EveryFile(tok) == TRUE
NeedsToken(tok) == tok = NoToken


\* mutant: the index is not consulted
AlreadyUploaded_Never(name, already_uploaded_files) == FALSE
AlreadyUploaded(name, already_uploaded_files) == InList(name, already_uploaded_files)

\* mutant: every chunk is announced with the full chunk size
ChunkLength_Full(fsize, pos, csize) == IF pos < fsize THEN csize ELSE 0

\* chunked: what fd.read(chunk_size) returns at position pos of a file of fsize bytes
ChunkLength(fsize, pos, csize) == Min2(csize, fsize - pos)

\* mutant: `offset = length` for `offset += length`
AdvanceOffset_Assign(off, length) == length
AdvanceOffset(off, length) == off + length

InitiationAccepted(status) == status = HTTP_CREATED
\* mutant: the answer to a PATCH is not checked
ChunkAccepted_Any(status) == TRUE
ChunkAccepted(status) == status = HTTP_NO_CONTENT
CommitAccepted(status) == status = HTTP_OK

ResetLocals ==
    /\ sub' = NoSub /\ ft' = 0 /\ doi' = <<>> /\ doi_part' = <<>> /\ token' = NoToken
    /\ localfile' = NoFile /\ upload_filename' = <<>>
    /\ filesize' = 0 /\ UPLOAD_PATH' = NoLocation /\ offset' = 0 /\ fpos' = 0
    /\ url' = NoLocation

\* mutant: the traceback is not kept
Abort_NoTraceback(e, fn) == pc' = "aborted" /\ exc' = e /\ raised_in' = NoFrame
\* an exception no caller catches ends the run
Abort(e, fn) == pc' = "aborted" /\ exc' = e /\ raised_in' = fn

(***************************************************************************)
(* pcs.py: the values the download works on.                               *)
(***************************************************************************)
BLOCK == 1024 * 100                      \* doc.read(1024*100)
PCS_CONF_ID == <<"c","h","i","2","3","b">>
URL_SCHEME == <<"h",":">>                \* what urlopen needs at the head of a URL
DOT_PDF == <<".","p","d","f">>
Modes == {"only new", "only modified", "all"}
None == <<>>                             \* the return value None of download_files
NoRow == [c \in {} |-> <<>>]

PcsDescriptor(field, directory, suffix) ==
    [pcs_field |-> field, directory |-> directory, suffix |-> suffix]
PDF == PcsDescriptor("pdf", <<"P","D","F">>, DOT_PDF)
VIDEO == PcsDescriptor("video", <<"V","I","D">>, DOT_MP4)
\* the descriptors of FIELDS_FILE that the flags on the command line select
PcsFiletypeLists == {<<>>, <<PDF>>, <<PDF, VIDEO>>, <<VIDEO, PDF>>}
PcsFields == {"pdf", "video"}
ColumnSets == {{"Paper ID", "pdf", "video"}, {"Paper ID", "pdf"}}

DigitChar == <<"0","1","2","3","4","5","6","7","8","9">>
PaperId(i) == <<"p","n","1","0", DigitChar[i + 1]>>
ResourceNames == <<"a","b","c","d","e","f","g","h">>
Resource(i, field) == ResourceNames[2 * i + (IF field = "pdf" THEN 1 ELSE 2)]
Resources == {Resource(i, f) : i \in 0..(MaxRows - 1), f \in PcsFields}
\* the link to a resource as the fetch numbered gen of the spreadsheet gives it
Url(res, gen) == URL_SCHEME \o <<res, DigitChar[gen + 1]>>
\* what a cell of a file column holds: nothing, blanks, or the link to the file
FileCells(i, field, gen) == {<<>>, <<" ">>, <<" "," ">>, Url(Resource(i, field), gen)}
AllCells(gen) == UNION {FileCells(i, f, gen) : i \in 0..(MaxRows - 1), f \in PcsFields}
                    \cup {PaperId(i) : i \in 0..(MaxRows - 1)}
\* row i of list(DictReader(fd)) under the header row cols
Rows(i, cols, gen) ==
    {r \in [cols -> AllCells(gen)] :
        /\ r["Paper ID"] = PaperId(i)
        /\ \A f \in cols \ {"Paper ID"} : r[f] \in FileCells(i, f, gen)}
\* LIST_FILE: absent, or written by the fetch numbered gen (0: by an earlier
\* run of the program) and fresh while less than five minutes old
NoListFile == [exists |-> FALSE, fresh |-> FALSE, gen |-> 0]
ListFile(fresh, gen) == [exists |-> TRUE, fresh |-> fresh, gen |-> gen]

\* f"{PCS_CONF_ID}_{filetype['directory']}/{paper_id}{filetype['suffix']}"
DownloadFilename_NoSuffix(paper_id, filetype) ==
    PCS_CONF_ID \o <<"_">> \o filetype.directory \o <<"/">> \o paper_id
DownloadFilename(paper_id, filetype) ==
    PCS_CONF_ID \o <<"_">> \o filetype.directory \o <<"/">> \o paper_id \o filetype.suffix
Filenames == {DownloadFilename(PaperId(i), d) : i \in 0..(MaxRows - 1), d \in {PDF, VIDEO}}

\* a local file: its size and the version of the remote body its bytes are a
\* prefix of (version 0: bytes of another origin)
UnknownFile == [state |-> "unknown", size |-> 0, ver |-> 0]
AbsentFile == [state |-> "absent", size |-> 0, ver |-> 0]
File(size, ver) == [state |-> "file", size |-> size, ver |-> ver]
\* what the server answers for a resource
UnknownRemote == [kind |-> "unknown", size |-> 0, ver |-> 0]
Remote(kind, size, ver) == [kind |-> kind, size |-> size, ver |-> ver]
NoDoc == [open |-> FALSE, size |-> 0, left |-> 0, ver |-> 0]

\* the files and resources a run of download_files comes upon: each is fixed
\* when the run first looks at it
LazyLocalStates == {AbsentFile, File(BLOCK + 1, 0)}
LazyRemoteStates == {Remote("ok", BLOCK + 1, 1), Remote("http_error", 0, 1),
                     Remote("url_error", 0, 1), Remote("no_length", BLOCK + 1, 1)}
\* the files and resources download_file is tried on alone
BodySizes == {0, 1, BLOCK, BLOCK + 1}
FileStates == {AbsentFile, File(1, 0), File(BLOCK, 1), File(BLOCK + 1, 0)}
RemoteStates(ver) == {Remote("ok", n, ver) : n \in BodySizes}
                        \cup {Remote(k, 0, ver) : k \in {"http_error", "url_error", "no_length"}}

\* urlopen raises ValueError on a string that does not begin with a scheme
WellFormed(u) == startswith(u, URL_SCHEME) /\ Len(u) = 4
ResourceOf(u) == u[3]

Exists(l) == l.state = "file"
\* file_size == doc_size
IsCurrent_Never(file_size, doc_size) == FALSE
IsCurrent(file_size, doc_size) == file_size = doc_size

\* idx < start_index
RowSkipped_Through(i, k) == i <= k
RowSkipped(i, k) == i < k

\* return idx
ResumeIndex_LastDone(i) == i - 1
ResumeIndex(i) == i

DownloadIdle ==
    /\ dpc = "idle" /\ dexc = NoException
    /\ mode = "only modified" /\ start_index = 0
    /\ pcs_filetypes = <<>> /\ columns = {} /\ nrows = 0
    /\ didx = 0 /\ submission = NoRow /\ dft = 0 /\ returned = None
    /\ local = [f \in Filenames |-> UnknownFile]
    /\ remote = [r \in Resources |-> UnknownRemote]
    /\ df_url = <<>> /\ df_filename = <<>> /\ doc = NoDoc
    /\ df_result = "None" /\ df_wrote = FALSE /\ df_seen = UnknownRemote
    /\ df_before = UnknownFile
    /\ dlog = <<>> /\ dnet = <<>> /\ calls = <<>>
    /\ list_file = NoListFile /\ submissions = <<>> /\ mlog = <<>>

UploadIdle ==
    /\ pc = "idle" /\ exc = NoException /\ raised_in = NoFrame
    /\ listing = <<>>
    /\ chunk_size = CHUNK_SIZE
    /\ DOI_FALLBACK = [p \in {} |-> <<>>]
    /\ filetypes = <<>>
    /\ ALREADY_UPLOADED_FILES = <<>>
    /\ idx = 0
    /\ sub = NoSub /\ ft = 0 /\ doi = <<>> /\ doi_part = <<>> /\ token = NoToken
    /\ localfile = NoFile /\ upload_filename = <<>>
    /\ filesize = 0 /\ UPLOAD_PATH = NoLocation /\ offset = 0 /\ fpos = 0
    /\ url = NoLocation
    /\ net = <<>> /\ outcomes = <<>> /\ token_gets = 0 /\ committed = <<>>

(***************************************************************************)
(* acm_dl.py: the upload run.                                              *)
(***************************************************************************)
frozenUpload == <<listing, chunk_size, DOI_FALLBACK, filetypes>>
fileLocals == <<filesize, UPLOAD_PATH, offset, fpos, url>>

\* upload(): the Already-Uploaded Index is built, the CSV is opened
GetUploadedSubmissions ==
    /\ pc = "start"
    /\ ALREADY_UPLOADED_FILES' = FileNames(get_uploaded_submissions(listing, FALSE))
    /\ pc' = "loop"
    /\ UNCHANGED <<downloadVars, exc, raised_in, frozenUpload, idx, sub, ft, doi, doi_part, token, localfile,
                   upload_filename, fileLocals, net, outcomes, token_gets, committed>>

\* upload(): the CSV has no further row
EndOfRows ==
    /\ pc = "loop"
    /\ pc' = "done"
    /\ UNCHANGED <<downloadVars, exc, raised_in, frozenUpload, ALREADY_UPLOADED_FILES, idx, sub, ft, doi, doi_part,
                   token, localfile, upload_filename, fileLocals, net, outcomes,
                   token_gets, committed>>

\* upload() reads a row; upload_submission finds the paper not ready and returns
SubmissionNotReady ==
    /\ pc = "loop" /\ idx < MaxSubs
    /\ \E s \in Submissions :
          NotReady(filetypes, s)
    /\ idx' = idx + 1
    /\ UNCHANGED <<downloadVars, pc, exc, raised_in, frozenUpload, ALREADY_UPLOADED_FILES, sub, ft, doi, doi_part,
                   token, localfile, upload_filename, fileLocals, net, outcomes,
                   token_gets, committed>>

\* upload() reads a row; upload_submission cannot derive the DOI
SubmissionDoiError ==
    /\ pc = "loop" /\ idx < MaxSubs
    /\ \E s \in Submissions :
          /\ ~NotReady(filetypes, s)
          /\ DoiLookup(s, DOI_FALLBACK).exc # NoException
          /\ sub' = s
          /\ Abort(DoiLookup(s, DOI_FALLBACK).exc, "upload_submission")
    /\ net' = <<>>
    /\ outcomes' = <<>>
    /\ idx' = idx + 1
    /\ UNCHANGED <<downloadVars, frozenUpload, ALREADY_UPLOADED_FILES, ft, doi, doi_part, token,
                   localfile, upload_filename, fileLocals, token_gets, committed>>

\* upload() reads a row; upload_submission enters its loop over the descriptors
SubmissionBegin ==
    /\ pc = "loop" /\ idx < MaxSubs
    /\ \E s \in Submissions :
          /\ ~NotReady(filetypes, s)
          /\ DoiLookup(s, DOI_FALLBACK).exc = NoException
          /\ sub' = s
          /\ doi' = DoiLookup(s, DOI_FALLBACK).doi
          /\ doi_part' = DoiLookup(s, DOI_FALLBACK).doi_part
    /\ token' = NoToken
    /\ ft' = 1
    /\ net' = <<>>
    /\ outcomes' = <<>>
    /\ idx' = idx + 1
    /\ pc' = "filetype"
    /\ UNCHANGED <<downloadVars, exc, raised_in, frozenUpload, ALREADY_UPLOADED_FILES, localfile, upload_filename,
                   fileLocals, token_gets, committed>>

\* the for loop is exhausted: upload_submission returns
SubmissionEnd ==
    /\ pc = "filetype" /\ ft > Len(filetypes)
    /\ pc' = "loop"
    /\ ResetLocals
    /\ net' = <<>>
    /\ outcomes' = <<>>
    /\ UNCHANGED <<downloadVars, exc, raised_in, frozenUpload, ALREADY_UPLOADED_FILES, idx, token_gets, committed>>

Continue(what) ==
    /\ outcomes' = Append(outcomes, Outcome(what))
    /\ ft' = ft + 1
    /\ pc' = "filetype"

SkipNotToBeUploaded ==
    /\ pc = "filetype" /\ ft <= Len(filetypes)
    /\ NotToBeUploaded(filetypes[ft])
    /\ Continue("not to be uploaded to DL")
    /\ UNCHANGED <<downloadVars, exc, raised_in, frozenUpload, ALREADY_UPLOADED_FILES, idx, sub, doi, doi_part, token,
                   localfile, upload_filename, fileLocals, net, token_gets, committed>>

SkipNoAgreement ==
    /\ pc = "filetype" /\ ft <= Len(filetypes)
    /\ ~NotToBeUploaded(filetypes[ft])
    /\ AgreementMissing(filetypes[ft], sub)
    /\ Continue("no agreement from authors")
    /\ UNCHANGED <<downloadVars, exc, raised_in, frozenUpload, ALREADY_UPLOADED_FILES, idx, sub, doi, doi_part, token,
                   localfile, upload_filename, fileLocals, net, token_gets, committed>>

\* the candidate passed the policy tests: its names are formed and the local
\* file is looked for
SkipNoFile ==
    /\ pc = "filetype" /\ ft <= Len(filetypes)
    /\ ~NotToBeUploaded(filetypes[ft])
    /\ ~AgreementMissing(filetypes[ft], sub)
    /\ localfile' = NoFile
    /\ upload_filename' = UploadFilename(doi_part, filetypes[ft])
    /\ Continue("No file")
    /\ UNCHANGED <<downloadVars, exc, raised_in, frozenUpload, ALREADY_UPLOADED_FILES, idx, sub, doi, doi_part, token,
                   fileLocals, net, token_gets, committed>>

FileFound ==
    /\ pc = "filetype" /\ ft <= Len(filetypes)
    /\ ~NotToBeUploaded(filetypes[ft])
    /\ ~AgreementMissing(filetypes[ft], sub)
    /\ \E f \in LocalFileStates(Filepath(sub, filetypes[ft])) \ {NoFile} :
          \E newsize \in ConvertedSizes(f) :
             localfile' = IF endswith(Filepath(sub, filetypes[ft]), DOT_VTT)
                          THEN srt_to_vtt(f, newsize) ELSE f
    /\ upload_filename' = UploadFilename(doi_part, filetypes[ft])
    /\ pc' = "token"
    /\ UNCHANGED <<downloadVars, exc, raised_in, frozenUpload, ALREADY_UPLOADED_FILES, idx, sub, ft, doi, doi_part,
                   token, fileLocals, net, outcomes, token_gets, committed>>

\* `if not token` finds the token of an earlier descriptor of this row
TokenHeld ==
    /\ pc = "token"
    /\ ~NeedsToken(token)
    /\ pc' = "dedup"
    /\ UNCHANGED <<downloadVars, exc, raised_in, frozenUpload, ALREADY_UPLOADED_FILES, idx, sub, ft, doi, doi_part,
                   token, localfile, upload_filename, fileLocals, net, outcomes,
                   token_gets, committed>>

\* get_token(): the page carries a data-token
GetToken ==
    /\ pc = "token"
    /\ NeedsToken(token)
    /\ LET t == Token(token_gets + 1)
       IN /\ net' = Append(net, Request("GET", "TOKEN_URL", NoLocation, t, <<>>, 0, 0, 0, HTTP_OK, NoLocation))
          /\ token' = t
    /\ token_gets' = token_gets + 1
    /\ pc' = "dedup"
    /\ UNCHANGED <<downloadVars, exc, raised_in, frozenUpload, ALREADY_UPLOADED_FILES, idx, sub, ft, doi, doi_part,
                   localfile, upload_filename, fileLocals, outcomes, committed>>

\* mutant: get_token returns without a token and the caller goes on
GetTokenFails_Continues ==
    /\ pc = "token"
    /\ NeedsToken(token)
    /\ net' = Append(net, Request("GET", "TOKEN_URL", NoLocation, NoToken, <<>>, 0, 0, 0, HTTP_OK, NoLocation))
    /\ token_gets' = token_gets + 1
    /\ pc' = "dedup"
    /\ UNCHANGED <<downloadVars, exc, raised_in, frozenUpload, ALREADY_UPLOADED_FILES, idx, sub, ft,
                   doi, doi_part, token, localfile, upload_filename, fileLocals, outcomes,
                   committed>>

\* get_token(): the page carries no data-token; re.search returns None and
\* .groups() raises
GetTokenFails ==
    /\ pc = "token"
    /\ NeedsToken(token)
    /\ net' = Append(net, Request("GET", "TOKEN_URL", NoLocation, NoToken, <<>>, 0, 0, 0, HTTP_OK, NoLocation))
    /\ token_gets' = token_gets + 1
    /\ Abort("AttributeError", "get_token")
    /\ UNCHANGED <<downloadVars, frozenUpload, ALREADY_UPLOADED_FILES, idx, sub, ft, doi, doi_part, token,
                   localfile, upload_filename, fileLocals, outcomes, committed>>

SkipAlreadyUploaded ==
    /\ pc = "dedup"
    /\ AlreadyUploaded(upload_filename, ALREADY_UPLOADED_FILES)
    /\ Continue("Already uploaded")
    /\ UNCHANGED <<downloadVars, exc, raised_in, frozenUpload, ALREADY_UPLOADED_FILES, idx, sub, doi, doi_part, token,
                   localfile, upload_filename, fileLocals, net, token_gets, committed>>

\* upload_submission calls upload_file, which reads the size of the file
CallUploadFile ==
    /\ pc = "dedup"
    /\ ~AlreadyUploaded(upload_filename, ALREADY_UPLOADED_FILES)
    /\ filesize' = localfile.size
    /\ pc' = "post"
    /\ UNCHANGED <<downloadVars, exc, raised_in, frozenUpload, ALREADY_UPLOADED_FILES, idx, sub, ft, doi, doi_part,
                   token, localfile, upload_filename, UPLOAD_PATH, offset, fpos, url, net,
                   outcomes, token_gets, committed>>

(***************************************************************************)
(* acm_dl.py: upload_file and commit_submission.                           *)
(***************************************************************************)
runState == <<frozenUpload, ALREADY_UPLOADED_FILES, idx, sub, ft, doi, doi_part, token,
              localfile, upload_filename, outcomes, token_gets, committed>>

\* the initiation POST is answered 201 with a Location
InitiateUpload ==
    /\ pc = "post"
    /\ LET loc == Location(idx, ft)
       IN /\ net' = Append(net, Request("POST", "UPLOAD_URL", NoLocation, token, upload_filename,
                                        0, 0, filesize, HTTP_CREATED, loc))
          /\ UPLOAD_PATH' = loc
    /\ InitiationAccepted(HTTP_CREATED)
    /\ offset' = 0
    /\ fpos' = 0
    /\ pc' = "patch"
    /\ UNCHANGED <<downloadVars, exc, raised_in, runState, filesize, url>>

\* mutant: the answer to the initiation is not checked
InitiateUploadRejected_GoesOn ==
    /\ pc = "post"
    /\ \E status \in {HTTP_OK, HTTP_SERVER_ERROR} :
          net' = Append(net, Request("POST", "UPLOAD_URL", NoLocation, token, upload_filename,
                                     0, 0, filesize, status, NoLocation))
    /\ UPLOAD_PATH' = NoLocation
    /\ offset' = 0
    /\ fpos' = 0
    /\ pc' = "patch"
    /\ UNCHANGED <<downloadVars, exc, raised_in, runState, filesize, url>>

\* the initiation POST is answered with another status: the assert fails
InitiateUploadRejected ==
    /\ pc = "post"
    /\ \E status \in {HTTP_OK, HTTP_SERVER_ERROR} :
          /\ net' = Append(net, Request("POST", "UPLOAD_URL", NoLocation, token, upload_filename,
                                        0, 0, filesize, status, NoLocation))
          /\ IF InitiationAccepted(status)
             THEN Abort("KeyError", "upload_file")           \* r.headers['Location']
             ELSE Abort("AssertionError", "upload_file")
    /\ UNCHANGED <<downloadVars, runState, fileLocals>>

\* one turn of the loop over chunked(): the chunk is read and sent as a PATCH
SendChunk ==
    /\ pc = "patch"
    /\ ChunkLength(filesize, fpos, chunk_size) > 0
    /\ LET length == ChunkLength(filesize, fpos, chunk_size)
       IN /\ \E status \in {HTTP_NO_CONTENT, HTTP_SERVER_ERROR} :
                /\ net' = Append(net, Request("PATCH", "UPLOAD_PATH", UPLOAD_PATH, token, upload_filename,
                                              offset, length, filesize, status, NoLocation))
                /\ IF ChunkAccepted(status)
                   THEN UNCHANGED <<pc, exc, raised_in>>
                   ELSE Abort("AssertionError", "upload_file")
          /\ fpos' = fpos + length
          /\ offset' = AdvanceOffset(offset, length)
    /\ UNCHANGED <<downloadVars, runState, filesize, UPLOAD_PATH, url>>

\* fd.read returns no data: the loop ends and upload_file returns UPLOAD_PATH
UploadFileReturn ==
    /\ pc = "patch"
    /\ ~(ChunkLength(filesize, fpos, chunk_size) > 0)
    /\ url' = UPLOAD_PATH
    /\ pc' = "returned"
    /\ UNCHANGED <<downloadVars, exc, raised_in, runState, filesize, UPLOAD_PATH, offset, fpos, net>>

\* mutant: a committed file is entered in the index
CommitSubmission_ExtendsIndex ==
    /\ pc = "returned"
    /\ \E status \in {HTTP_OK, HTTP_SERVER_ERROR} :
          /\ net' = Append(net, CommitRequest(FilenamesUrls(upload_filename, url), status))
          /\ IF CommitAccepted(status)
             THEN /\ committed' = Append(committed, upload_filename)
                  /\ ALREADY_UPLOADED_FILES' = Append(ALREADY_UPLOADED_FILES, upload_filename)
                  /\ Continue("Done")
                  /\ UNCHANGED <<exc, raised_in>>
             ELSE /\ Abort("AssertionError", "commit_submission")
                  /\ UNCHANGED <<committed, outcomes, ft, ALREADY_UPLOADED_FILES>>
    /\ UNCHANGED <<downloadVars, frozenUpload, idx, sub, doi, doi_part, token,
                   localfile, upload_filename, fileLocals, token_gets>>

\* upload_submission commits the file just uploaded: commit_submission posts
\* one file-name-1 / file-url-1 pair
CommitSubmission ==
    /\ pc = "returned"
    /\ \E status \in {HTTP_OK, HTTP_SERVER_ERROR} :
          /\ net' = Append(net, CommitRequest(FilenamesUrls(upload_filename, url), status))
          /\ IF CommitAccepted(status)
             THEN /\ committed' = Append(committed, upload_filename)
                  /\ Continue("Done")
                  /\ UNCHANGED <<exc, raised_in>>
             ELSE /\ Abort("AssertionError", "commit_submission")
                  /\ UNCHANGED <<committed, outcomes, ft>>
    /\ UNCHANGED <<downloadVars, frozenUpload, ALREADY_UPLOADED_FILES, idx, sub, doi, doi_part, token,
                   localfile, upload_filename, fileLocals, token_gets>>

UploadFileNext == InitiateUpload \/ InitiateUploadRejected \/ SendChunk \/ UploadFileReturn

UploadNext ==
    \/ GetUploadedSubmissions \/ EndOfRows
    \/ SubmissionNotReady \/ SubmissionDoiError \/ SubmissionBegin \/ SubmissionEnd
    \/ SkipNotToBeUploaded \/ SkipNoAgreement \/ SkipNoFile \/ FileFound
    \/ TokenHeld \/ GetToken \/ GetTokenFails
    \/ SkipAlreadyUploaded \/ CallUploadFile
    \/ UploadFileNext
    \/ CommitSubmission

\* the state when upload(track_id, filetypes) is called
UploadInit ==
    /\ pc = "start"
    /\ exc = NoException /\ raised_in = NoFrame
    /\ listing \in Listings
    /\ chunk_size = CHUNK_SIZE
    /\ DOI_FALLBACK \in FallbackTables
    /\ filetypes \in FiletypeLists
    /\ ALREADY_UPLOADED_FILES = <<>>
    /\ idx = 0
    /\ sub = NoSub /\ ft = 0 /\ doi = <<>> /\ doi_part = <<>> /\ token = NoToken
    /\ localfile = NoFile /\ upload_filename = <<>>
    /\ filesize = 0 /\ UPLOAD_PATH = NoLocation /\ offset = 0 /\ fpos = 0
    /\ url = NoLocation
    /\ net = <<>> /\ outcomes = <<>> /\ token_gets = 0 /\ committed = <<>>
    /\ DownloadIdle

\* the state when upload_file(token, path, ...) is called on a file of any
\* size, with chunked() reading chunk_size bytes at a time
UploadFileInit ==
    /\ pc = "post"
    /\ exc = NoException /\ raised_in = NoFrame
    /\ listing = <<>>
    /\ chunk_size \in 1..MaxChunk
    /\ filesize \in 0..MaxFileSize
    /\ DOI_FALLBACK \in {f \in FallbackTables : Cardinality(DOMAIN f) = 1}
    /\ filetypes = <<Descriptor(DOT_MP4, <<"V">>, "yes", "")>>
    /\ ALREADY_UPLOADED_FILES = <<>>
    /\ idx = 1
    /\ sub \in {s \in Submissions : s["Paper ID"] = <<"p","1">> /\ s["DOI"] = <<" ">>
                                    /\ s["consent"] = <<>> /\ s["ready"] = <<>>}
    /\ ft = 1
    /\ doi = DoiLookup(sub, DOI_FALLBACK).doi
    /\ doi_part = DoiLookup(sub, DOI_FALLBACK).doi_part
    /\ token = Token(1)
    /\ localfile = [exists |-> TRUE, size |-> filesize, srt |-> FALSE,
                    path |-> Filepath(sub, filetypes[1])]
    /\ upload_filename = UploadFilename(doi_part, filetypes[1])
    /\ UPLOAD_PATH = NoLocation /\ offset = 0 /\ fpos = 0
    /\ url = NoLocation
    /\ net = <<>> /\ outcomes = <<>> /\ token_gets = 0 /\ committed = <<>>
    /\ DownloadIdle

SpecUpload == UploadInit /\ [][UploadNext]_vars
SpecUploadFile == UploadFileInit /\ [][UploadFileNext]_vars

(***************************************************************************)
(* pcs.py: download_file.                                                  *)
(***************************************************************************)
dfrozen == <<mode, start_index, pcs_filetypes, columns, nrows, list_file, submissions, mlog>>
dloop == <<didx, submission, dft, returned, dlog>>

LocalChoices(f) == IF local[f].state = "unknown" THEN LazyLocalStates ELSE {local[f]}
RemoteChoices(u) ==
    IF remote[ResourceOf(u)].kind = "unknown" THEN LazyRemoteStates ELSE {remote[ResourceOf(u)]}
\* mutant: "only new" goes on to its urlopen whether or not the file exists
BeforeUrlopen_Any == LocalChoices(df_filename)
\* the local file as download_file knows it when it comes to its urlopen:
\* only "only new" has looked at it by then, and found none
BeforeUrlopen ==
    IF mode = "only new" THEN {l \in LocalChoices(df_filename) : ~Exists(l)}
                         ELSE {local[df_filename]}
\* a call of urlopen; it sends a request unless it raises ValueError on the
\* string it is given
Urlopen == [idx |-> didx, ft |-> dft, url |-> df_url, sent |-> WellFormed(df_url)]

\* download_file is left, by a return or by an exception it does not catch
EndCall(result, wrote, seen, before, after) ==
    /\ df_result' = result /\ df_wrote' = wrote /\ df_seen' = seen /\ df_before' = before
    /\ doc' = NoDoc
    /\ calls' = Append(calls, [url |-> df_url, filename |-> df_filename, result |-> result,
                               wrote |-> wrote, seen |-> seen, before |-> before,
                               after |-> after])
    /\ IF result \in {"True", "False"}
       THEN dpc' = "df_returned" /\ dexc' = dexc
       ELSE dpc' = "crashed" /\ dexc' = result

\* mode "only new": the file exists, nothing is requested
OnlyNewSkip ==
    /\ dpc = "download_file" /\ mode = "only new"
    /\ \E l \in LocalChoices(df_filename) :
          /\ Exists(l)
          /\ local' = [local EXCEPT ![df_filename] = l]
          /\ EndCall("True", FALSE, df_seen, l, l)
    /\ UNCHANGED <<uploadVars, dfrozen, dloop, df_url, df_filename, remote, dnet>>

\* urlopen raises ValueError on the string it is given: return False
UrlMalformed ==
    /\ dpc = "download_file"
    /\ ~WellFormed(df_url)
    /\ \E l \in BeforeUrlopen :
          /\ local' = [local EXCEPT ![df_filename] = l]
          /\ EndCall("False", FALSE, df_seen, l, l)
    /\ dnet' = Append(dnet, Urlopen)
    /\ UNCHANGED <<uploadVars, dfrozen, dloop, df_url, df_filename, remote>>

\* urlopen raises HTTPError: return False
HttpError ==
    /\ dpc = "download_file"
    /\ WellFormed(df_url)
    /\ \E l \in BeforeUrlopen : \E r \in RemoteChoices(df_url) :
          /\ r.kind = "http_error"
          /\ local' = [local EXCEPT ![df_filename] = l]
          /\ remote' = [remote EXCEPT ![ResourceOf(df_url)] = r]
          /\ EndCall("False", FALSE, r, l, l)
    /\ dnet' = Append(dnet, Urlopen)
    /\ UNCHANGED <<uploadVars, dfrozen, dloop, df_url, df_filename>>

\* urlopen raises URLError, or the answer has no Content-Length and int(None)
\* raises TypeError: neither is caught
UrlopenRaises ==
    /\ dpc = "download_file"
    /\ WellFormed(df_url)
    /\ \E l \in BeforeUrlopen : \E r \in RemoteChoices(df_url) :
          /\ r.kind \in {"url_error", "no_length"}
          /\ local' = [local EXCEPT ![df_filename] = l]
          /\ remote' = [remote EXCEPT ![ResourceOf(df_url)] = r]
          /\ EndCall(IF r.kind = "url_error" THEN "URLError" ELSE "TypeError", FALSE, r, l, l)
    /\ dnet' = Append(dnet, Urlopen)
    /\ UNCHANGED <<uploadVars, dfrozen, dloop, df_url, df_filename>>

\* mutant: the sizes are not compared, an existing file is current
AlreadyCurrent_AnySize ==
    /\ dpc = "download_file" /\ mode = "only modified"
    /\ WellFormed(df_url)
    /\ \E l \in LocalChoices(df_filename) : \E r \in RemoteChoices(df_url) :
          /\ r.kind = "ok"
          /\ Exists(l)
          /\ local' = [local EXCEPT ![df_filename] = l]
          /\ remote' = [remote EXCEPT ![ResourceOf(df_url)] = r]
          /\ EndCall("True", FALSE, r, l, l)
    /\ dnet' = Append(dnet, Urlopen)
    /\ UNCHANGED <<uploadVars, dfrozen, dloop, df_url, df_filename>>

\* mode "only modified": the file exists and has the size the server announces
AlreadyCurrent ==
    /\ dpc = "download_file" /\ mode = "only modified"
    /\ WellFormed(df_url)
    /\ \E l \in LocalChoices(df_filename) : \E r \in RemoteChoices(df_url) :
          /\ r.kind = "ok"
          /\ Exists(l) /\ IsCurrent(l.size, r.size)
          /\ local' = [local EXCEPT ![df_filename] = l]
          /\ remote' = [remote EXCEPT ![ResourceOf(df_url)] = r]
          /\ EndCall("True", FALSE, r, l, l)
    /\ dnet' = Append(dnet, Urlopen)
    /\ UNCHANGED <<uploadVars, dfrozen, dloop, df_url, df_filename>>

\* the file is to be downloaded and the response is open
OpenDoc ==
    /\ dpc = "download_file"
    /\ WellFormed(df_url)
    /\ \E r \in RemoteChoices(df_url) :
          /\ r.kind = "ok"
          /\ \E l \in IF mode = "only modified"
                      THEN {x \in LocalChoices(df_filename) :
                                ~(Exists(x) /\ IsCurrent(x.size, r.size))}
                      ELSE BeforeUrlopen :
                /\ local' = [local EXCEPT ![df_filename] = l]
                /\ df_before' = l
          /\ remote' = [remote EXCEPT ![ResourceOf(df_url)] = r]
          /\ df_seen' = r
          /\ doc' = [open |-> TRUE, size |-> r.size, left |-> r.size, ver |-> r.ver]
    /\ dnet' = Append(dnet, Urlopen)
    /\ dpc' = "open"
    /\ UNCHANGED <<uploadVars, dfrozen, dloop, df_url, df_filename, df_result, df_wrote,
                   dexc, calls>>

\* open(filename, 'wb') empties the file
OpenLocalFile ==
    /\ dpc = "open"
    /\ local' = [local EXCEPT ![df_filename] = File(0, doc.ver)]
    /\ df_wrote' = TRUE
    /\ dpc' = "read"
    /\ UNCHANGED <<uploadVars, dfrozen, dloop, df_url, df_filename, df_result, df_seen,
                   df_before, doc, dexc, remote, dnet, calls>>

\* doc.read returns the next block, fd.write appends it
ReadBlock ==
    /\ dpc = "read" /\ doc.left > 0
    /\ LET n == Min2(BLOCK, doc.left)
       IN /\ local' = [local EXCEPT ![df_filename] = File(@.size + n, doc.ver)]
          /\ doc' = [doc EXCEPT !.left = @ - n]
    /\ UNCHANGED <<uploadVars, dfrozen, dloop, df_url, df_filename, df_result, df_wrote,
                   df_seen, df_before, dpc, dexc, remote, dnet, calls>>

\* the connection is closed before the announced length was read: doc.read
\* returns no data, the loop ends and download_file returns True
ConnectionClosed ==
    /\ dpc = "read" /\ doc.left > 0
    /\ EndCall("True", TRUE, df_seen, df_before, local[df_filename])
    /\ UNCHANGED <<uploadVars, dfrozen, dloop, df_url, df_filename, local, remote, dnet>>

\* doc.read raises (the socket times out): not caught
ReadRaises ==
    /\ dpc = "read" /\ doc.left > 0
    /\ EndCall("TimeoutError", TRUE, df_seen, df_before, local[df_filename])
    /\ UNCHANGED <<uploadVars, dfrozen, dloop, df_url, df_filename, local, remote, dnet>>

\* the body is read to its end: return True
ReturnTrue ==
    /\ dpc = "read" /\ doc.left = 0
    /\ EndCall("True", TRUE, df_seen, df_before, local[df_filename])
    /\ UNCHANGED <<uploadVars, dfrozen, dloop, df_url, df_filename, local, remote, dnet>>

DownloadFileSteps ==
    \/ OnlyNewSkip \/ UrlMalformed \/ HttpError \/ UrlopenRaises \/ AlreadyCurrent
    \/ OpenDoc \/ OpenLocalFile \/ ReadBlock \/ ConnectionClosed \/ ReadRaises \/ ReturnTrue

\* download_file is called once more for the same URL and file name, by the
\* restarted download_files or by the next run of the program
CallAgain ==
    /\ dpc \in {"df_returned", "crashed"}
    /\ Len(calls) < MaxCalls
    /\ dpc' = "download_file" /\ dexc' = NoException
    /\ doc' = NoDoc /\ df_result' = "None" /\ df_wrote' = FALSE
    /\ df_seen' = UnknownRemote /\ df_before' = local[df_filename]
    /\ UNCHANGED <<uploadVars, dfrozen, dloop, df_url, df_filename, local, remote, dnet, calls>>

\* the server comes to hold another version of the resource
RemoteChanges ==
    /\ WellFormed(df_url)
    /\ Len(calls) < MaxCalls
    /\ remote[ResourceOf(df_url)].ver < MaxVersions
    /\ \E r \in RemoteStates(remote[ResourceOf(df_url)].ver + 1) :
          remote' = [remote EXCEPT ![ResourceOf(df_url)] = r]
    /\ UNCHANGED <<uploadVars, dfrozen, dloop, df_url, df_filename, doc, df_result, df_wrote,
                   df_seen, df_before, dpc, dexc, local, dnet, calls>>

DownloadFileNext == DownloadFileSteps \/ CallAgain \/ RemoteChanges

\* the state when download_file(paper_id, url, filename, mode) is called
DownloadFileInit ==
    /\ UploadIdle
    /\ dpc = "download_file" /\ dexc = NoException
    /\ mode \in Modes /\ start_index = 0
    /\ pcs_filetypes = <<PDF>> /\ columns = {"Paper ID", "pdf"} /\ nrows = 1
    /\ didx = 0 /\ submission = NoRow /\ dft = 0 /\ returned = None
    /\ df_url \in {Url(Resource(0, "pdf"), 1), <<" ", " ">>}
    /\ df_filename = DownloadFilename(PaperId(0), PDF)
    /\ df_before \in FileStates
    /\ local = [f \in Filenames |-> IF f = df_filename THEN df_before ELSE UnknownFile]
    /\ \E r \in RemoteStates(1) :
          remote = [x \in Resources |-> IF x = Resource(0, "pdf") THEN r ELSE UnknownRemote]
    /\ doc = NoDoc /\ df_result = "None" /\ df_wrote = FALSE /\ df_seen = UnknownRemote
    /\ dlog = <<>> /\ dnet = <<>> /\ calls = <<>>
    /\ list_file = ListFile(TRUE, 1) /\ submissions = <<NoRow>> /\ mlog = <<>>

(***************************************************************************)
(* pcs.py: download_files.                                                 *)
(***************************************************************************)
dfile == <<df_url, df_filename, doc, df_result, df_wrote, df_seen, df_before>>
Logged(what) == [idx |-> didx, ft |-> dft, what |-> what]

\* no descriptor is selected: sys.exit()
ExitNoFiletypes ==
    /\ dpc = "download_files"
    /\ Len(pcs_filetypes) = 0
    /\ dpc' = "exited"
    /\ UNCHANGED <<uploadVars, dfrozen, dloop, dfile, dexc, local, remote, dnet, calls>>

\* the directories exist or are made, LIST_FILE is read into submissions
MakeDirs ==
    /\ dpc = "download_files"
    /\ Len(pcs_filetypes) > 0
    /\ didx' = 0
    /\ dpc' = "rows"
    /\ UNCHANGED <<uploadVars, dfrozen, submission, dft, returned, dlog, dfile, dexc, local,
                   remote, dnet, calls>>

\* os.makedirs raises something other than FileExistsError
MakeDirsRaises ==
    /\ dpc = "download_files"
    /\ Len(pcs_filetypes) > 0
    /\ dpc' = "crashed" /\ dexc' = "PermissionError"
    /\ UNCHANGED <<uploadVars, dfrozen, dloop, dfile, local, remote, dnet, calls>>

\* a row below start_index: "skipping", continue
SkipRow ==
    /\ dpc = "rows" /\ didx < nrows
    /\ RowSkipped(didx, start_index)
    /\ dlog' = Append(dlog, [idx |-> didx, ft |-> 0, what |-> "skipping"])
    /\ didx' = didx + 1
    /\ UNCHANGED <<uploadVars, dfrozen, submission, dft, returned, dfile, dpc, dexc, local,
                   remote, dnet, calls>>

\* a row from start_index on: the loop over filetypes begins
NextRow ==
    /\ dpc = "rows" /\ didx < nrows
    /\ ~RowSkipped(didx, start_index)
    /\ submission' \in IF submissions[didx + 1] = NoRow
                       THEN Rows(didx, columns, list_file.gen)
                       ELSE {submissions[didx + 1]}
    /\ submissions' = [submissions EXCEPT ![didx + 1] = submission']
    /\ dft' = 1
    /\ dpc' = "types"
    /\ UNCHANGED <<uploadVars, mode, start_index, pcs_filetypes, columns, nrows, list_file,
                   mlog, didx, returned, dlog, dfile, dexc, local, remote, dnet, calls>>

\* the loop over filetypes is exhausted
RowDone ==
    /\ dpc = "types" /\ dft > Len(pcs_filetypes)
    /\ didx' = didx + 1
    /\ submission' = NoRow /\ dft' = 0
    /\ dpc' = "rows"
    /\ UNCHANGED <<uploadVars, dfrozen, returned, dlog, dfile, dexc, local, remote, dnet,
                   calls>>

\* a variant of the code in which the KeyError is not caught
FieldNotInCsv_Raises ==
    /\ dpc = "types" /\ dft <= Len(pcs_filetypes)
    /\ pcs_filetypes[dft].pcs_field \notin columns
    /\ dpc' = "crashed" /\ dexc' = "KeyError"
    /\ UNCHANGED <<uploadVars, dfrozen, dloop, dfile, local, remote, dnet, calls>>

\* submission[filetype['pcs_field']] raises KeyError, which is caught
FieldNotInCsv ==
    /\ dpc = "types" /\ dft <= Len(pcs_filetypes)
    /\ pcs_filetypes[dft].pcs_field \notin columns
    /\ dlog' = Append(dlog, Logged("field not in CSV"))
    /\ dft' = dft + 1
    /\ UNCHANGED <<uploadVars, dfrozen, didx, submission, returned, dfile, dpc, dexc, local,
                   remote, dnet, calls>>

\* len(submission[filetype['pcs_field']]) > 1 is false
NotSubmitted ==
    /\ dpc = "types" /\ dft <= Len(pcs_filetypes)
    /\ pcs_filetypes[dft].pcs_field \in columns
    /\ ~(Len(submission[pcs_filetypes[dft].pcs_field]) > 1)
    /\ dlog' = Append(dlog, Logged("not submitted"))
    /\ dft' = dft + 1
    /\ UNCHANGED <<uploadVars, dfrozen, didx, submission, returned, dfile, dpc, dexc, local,
                   remote, dnet, calls>>

\* the cell is longer than one character: download_file is called on it
CallDownloadFile ==
    /\ dpc = "types" /\ dft <= Len(pcs_filetypes)
    /\ pcs_filetypes[dft].pcs_field \in columns
    /\ Len(submission[pcs_filetypes[dft].pcs_field]) > 1
    /\ df_url' = submission[pcs_filetypes[dft].pcs_field]
    /\ df_filename' = DownloadFilename(submission["Paper ID"], pcs_filetypes[dft])
    /\ doc' = NoDoc /\ df_result' = "None" /\ df_wrote' = FALSE
    /\ df_seen' = UnknownRemote
    /\ df_before' = local[DownloadFilename(submission["Paper ID"], pcs_filetypes[dft])]
    /\ dpc' = "download_file"
    /\ UNCHANGED <<uploadVars, dfrozen, dloop, dexc, local, remote, dnet, calls>>

\* download_file returned True: the next descriptor
DownloadSucceeded ==
    /\ dpc = "df_returned" /\ df_result = "True"
    /\ dlog' = Append(dlog, Logged(IF df_wrote THEN "downloaded" ELSE "already downloaded"))
    /\ dft' = dft + 1
    /\ dpc' = "types"
    /\ UNCHANGED <<uploadVars, dfrozen, didx, submission, returned, dfile, dexc, local,
                   remote, dnet, calls>>

\* a variant of the code in which a failed download is passed over
DownloadFailed_Continues ==
    /\ dpc = "df_returned" /\ df_result = "False"
    /\ dlog' = Append(dlog, Logged("failed"))
    /\ dft' = dft + 1
    /\ dpc' = "types"
    /\ UNCHANGED <<uploadVars, dfrozen, didx, submission, returned, dfile, dexc, local,
                   remote, dnet, calls>>

\* download_file returned False: "failed", return idx
DownloadFailed ==
    /\ dpc = "df_returned" /\ df_result = "False"
    /\ dlog' = Append(dlog, Logged("failed"))
    /\ returned' = <<ResumeIndex(didx)>>
    /\ dpc' = "finished"
    /\ UNCHANGED <<uploadVars, dfrozen, didx, submission, dft, dfile, dexc, local, remote,
                   dnet, calls>>

\* the loop over the rows is exhausted: fd.close(), None is returned
EndOfSubmissions ==
    /\ dpc = "rows" /\ didx = nrows
    /\ returned' = None
    /\ dpc' = "finished"
    /\ UNCHANGED <<uploadVars, dfrozen, didx, submission, dft, dlog, dfile, dexc, local,
                   remote, dnet, calls>>

DownloadFilesNext ==
    \/ ExitNoFiletypes \/ MakeDirs \/ MakeDirsRaises
    \/ SkipRow \/ NextRow \/ RowDone \/ EndOfSubmissions
    \/ FieldNotInCsv \/ NotSubmitted \/ CallDownloadFile
    \/ DownloadFileSteps
    \/ DownloadSucceeded \/ DownloadFailed

\* the state when download_files(start_index, mode) is called
DownloadFilesInit ==
    /\ UploadIdle
    /\ dpc = "download_files" /\ dexc = NoException
    /\ mode \in Modes
    /\ nrows \in 0..MaxRows
    /\ start_index \in 0..MaxRows
    /\ pcs_filetypes \in PcsFiletypeLists
    /\ columns \in ColumnSets
    /\ didx = 0 /\ submission = NoRow /\ dft = 0 /\ returned = None
    /\ local = [f \in Filenames |-> UnknownFile]
    /\ remote = [r \in Resources |-> UnknownRemote]
    /\ df_url = <<>> /\ df_filename = <<>> /\ doc = NoDoc
    /\ df_result = "None" /\ df_wrote = FALSE /\ df_seen = UnknownRemote
    /\ df_before = UnknownFile
    /\ dlog = <<>> /\ dnet = <<>> /\ calls = <<>>
    /\ list_file = ListFile(TRUE, 1)
    /\ submissions = [i \in 1..nrows |-> NoRow]
    /\ mlog = <<>>

(***************************************************************************)
(* pcs.py: main and get_camera_ready_csv.                                  *)
(***************************************************************************)
\* get_camera_ready_csv: LIST_FILE exists and is less than five minutes old,
\* "skipping download"; main calls download_files on the file as it is
CsvIsCurrent ==
    /\ dpc = "main"
    /\ list_file.exists /\ list_file.fresh
    /\ dpc' = "download_files"
    /\ UNCHANGED <<uploadVars, dfrozen, dloop, dfile, dexc, local, remote, dnet, calls>>

\* get_camera_ready_csv: the spreadsheet is fetched and written to LIST_FILE;
\* its links are made anew by the portal
FetchCsv ==
    /\ dpc = "main"
    /\ ~(list_file.exists /\ list_file.fresh)
    /\ list_file' = ListFile(TRUE, list_file.gen + 1)
    /\ submissions' = [i \in 1..nrows |-> NoRow]
    /\ remote' = [r \in Resources |-> UnknownRemote]
    /\ dpc' = "download_files"
    /\ UNCHANGED <<uploadVars, mode, start_index, pcs_filetypes, columns, nrows, mlog, dloop,
                   dfile, dexc, local, dnet, calls>>

\* get_camera_ready_csv: the login page carries no csrf_token; re.search
\* returns None and .groups() raises
FetchCsvRaises ==
    /\ dpc = "main"
    /\ ~(list_file.exists /\ list_file.fresh)
    /\ dpc' = "crashed" /\ dexc' = "AttributeError"
    /\ UNCHANGED <<uploadVars, dfrozen, dloop, dfile, local, remote, dnet, calls>>

\* five minutes have passed since LIST_FILE was written when main comes to
\* call get_camera_ready_csv
TimePasses ==
    /\ dpc = "main"
    /\ list_file.exists /\ list_file.fresh
    /\ list_file' = [list_file EXCEPT !.fresh = FALSE]
    /\ UNCHANGED <<uploadVars, mode, start_index, pcs_filetypes, columns, nrows, submissions,
                   mlog, dloop, dfile, dpc, dexc, local, remote, dnet, calls>>

MainSaw == [start |-> start_index, gen |-> list_file.gen, ret |-> returned]
\* the files and resources of the rows below index k
FilesBelow(k) == {DownloadFilename(PaperId(i), d) : i \in 0..(k - 1), d \in {PDF, VIDEO}}
ResourcesBelow(k) == {Resource(i, f) : i \in 0..(k - 1), f \in PcsFields}

\* mutant: main restarts at the first row
MainRestart_FromFirstRow ==
    /\ dpc = "finished" /\ returned # None
    /\ Len(mlog) < MaxRestarts
    /\ mlog' = Append(mlog, MainSaw)
    /\ start_index' = 0
    /\ returned' = None
    /\ didx' = 0 /\ submission' = NoRow /\ dft' = 0
    /\ dlog' = <<>> /\ dnet' = <<>> /\ calls' = <<>>
    /\ df_url' = <<>> /\ df_filename' = <<>> /\ doc' = NoDoc
    /\ df_result' = "None" /\ df_wrote' = FALSE /\ df_seen' = UnknownRemote
    /\ df_before' = UnknownFile
    /\ dpc' = "main"
    \* the rows below the index are skipped from now on: what is known of
    \* them, of their files and of their resources is not looked at again
    /\ submissions' = [i \in 1..nrows |-> IF i - 1 < returned[1] THEN NoRow ELSE submissions[i]]
    /\ local' = [f \in Filenames |->
                    IF f \in FilesBelow(returned[1]) THEN UnknownFile ELSE local[f]]
    /\ remote' = [r \in Resources |->
                     IF r \in ResourcesBelow(returned[1]) THEN UnknownRemote ELSE remote[r]]
    /\ UNCHANGED <<uploadVars, mode, pcs_filetypes, columns, nrows, list_file, dexc>>

\* download_files returned an index: "Restarting at submission #", the loop
\* of main turns again
MainRestart ==
    /\ dpc = "finished" /\ returned # None
    /\ Len(mlog) < MaxRestarts
    /\ mlog' = Append(mlog, MainSaw)
    /\ start_index' = returned[1]
    /\ returned' = None
    /\ didx' = 0 /\ submission' = NoRow /\ dft' = 0
    /\ dlog' = <<>> /\ dnet' = <<>> /\ calls' = <<>>
    /\ df_url' = <<>> /\ df_filename' = <<>> /\ doc' = NoDoc
    /\ df_result' = "None" /\ df_wrote' = FALSE /\ df_seen' = UnknownRemote
    /\ df_before' = UnknownFile
    /\ dpc' = "main"
    \* the rows below the index are skipped from now on: what is known of
    \* them, of their files and of their resources is not looked at again
    /\ submissions' = [i \in 1..nrows |-> IF i - 1 < returned[1] THEN NoRow ELSE submissions[i]]
    /\ local' = [f \in Filenames |->
                    IF f \in FilesBelow(returned[1]) THEN UnknownFile ELSE local[f]]
    /\ remote' = [r \in Resources |->
                     IF r \in ResourcesBelow(returned[1]) THEN UnknownRemote ELSE remote[r]]
    /\ UNCHANGED <<uploadVars, mode, pcs_filetypes, columns, nrows, list_file, dexc>>

\* download_files returned None: break, "Done!"
MainDone ==
    /\ dpc = "finished" /\ returned = None
    /\ mlog' = Append(mlog, MainSaw)
    /\ dpc' = "done"
    /\ UNCHANGED <<uploadVars, mode, start_index, pcs_filetypes, columns, nrows, list_file,
                   submissions, dloop, dfile, dexc, local, remote, dnet, calls>>

MainNext ==
    \/ CsvIsCurrent \/ FetchCsv \/ FetchCsvRaises \/ TimePasses
    \/ ExitNoFiletypes \/ MakeDirs \/ MakeDirsRaises
    \/ SkipRow \/ NextRow \/ RowDone \/ EndOfSubmissions
    \/ FieldNotInCsv \/ NotSubmitted \/ CallDownloadFile
    \/ UrlMalformed \/ HttpError \/ UrlopenRaises \/ AlreadyCurrent
    \/ OpenDoc \/ OpenLocalFile \/ ReadBlock \/ ConnectionClosed \/ ReadRaises \/ ReturnTrue
    \/ DownloadSucceeded \/ DownloadFailed
    \/ MainRestart \/ MainDone

\* the state when main() is called
MainInit ==
    /\ UploadIdle
    /\ dpc = "main" /\ dexc = NoException
    /\ mode = "only modified"
    /\ nrows \in 0..MaxRows
    /\ start_index = 0
    /\ pcs_filetypes \in PcsFiletypeLists
    /\ columns \in ColumnSets
    /\ didx = 0 /\ submission = NoRow /\ dft = 0 /\ returned = None
    /\ local = [f \in Filenames |-> UnknownFile]
    /\ remote = [r \in Resources |-> UnknownRemote]
    /\ df_url = <<>> /\ df_filename = <<>> /\ doc = NoDoc
    /\ df_result = "None" /\ df_wrote = FALSE /\ df_seen = UnknownRemote
    /\ df_before = UnknownFile
    /\ dlog = <<>> /\ dnet = <<>> /\ calls = <<>>
    /\ list_file \in {NoListFile, ListFile(TRUE, 0)}
    /\ submissions = [i \in 1..nrows |-> NoRow]
    /\ mlog = <<>>

SpecDownloadFile == DownloadFileInit /\ [][DownloadFileNext]_vars
SpecDownloadFiles == DownloadFilesInit /\ [][DownloadFilesNext]_vars
SpecMain == MainInit /\ [][MainNext]_vars
\* main as the interpreter runs it: a statement that can be executed is
\* executed
SpecMainFair == SpecMain /\ WF_vars(MainNext)

(***************************************************************************)
(* Properties of the upload run.                                           *)
(***************************************************************************)
IsTokenGet(r) == r.target = "TOKEN_URL"
IsInitiation(r) == r.target = "UPLOAD_URL"
IsPatch(r) == r.target = "UPLOAD_PATH"
IsCommit(r) == r.target = "SUBMIT_URL"
IsUploadRequest(r) == IsInitiation(r) \/ IsPatch(r) \/ IsCommit(r)

UnexpectedStatus(r) ==
    \/ IsInitiation(r) /\ r.status # HTTP_CREATED
    \/ IsPatch(r) /\ r.status # HTTP_NO_CONTENT
    \/ IsCommit(r) /\ r.status # HTTP_OK

RECURSIVE SumLengths(_)
SumLengths(reqs) == IF reqs = <<>> THEN 0 ELSE Head(reqs).length + SumLengths(Tail(reqs))

PatchesOf(j, upto) == SelectSeq(SubSeq(net, 1, upto), LAMBDA r : IsPatch(r) /\ r.ft = j)
Patches == SelectSeq(net, IsPatch)
PatchOffsets == [k \in DOMAIN Patches |-> Patches[k].offset]
PatchLengths == [k \in DOMAIN Patches |-> Patches[k].length]

\* C1: an unexpected status code (initiation not 201, chunk not 204, commit
\* not 200) is fatal only to that upload: it never ends the run.
C1_UnexpectedStatusDoesNotEndRun ==
    (\E i \in DOMAIN net : UnexpectedStatus(net[i])) => pc # "aborted"

\* C3 as claimed: over one whole run the token GET is issued at most once.
C3_TokenOncePerRun == token_gets <= 1

\* C3 as amended: within one call of upload_submission (one paper record) the
\* token GET is issued at most once, every initiation and chunk of that record
\* carries the token that GET returned, and a run issues at most one token GET
\* per record read.
C3_TokenOncePerSubmission ==
    /\ Cardinality({i \in DOMAIN net : IsTokenGet(net[i])}) <= 1
    /\ \A i \in DOMAIN net :
          (IsInitiation(net[i]) \/ IsPatch(net[i])) =>
              \E j \in 1..(i - 1) : /\ IsTokenGet(net[j])
                                    /\ net[j].token # NoToken
                                    /\ net[j].token = net[i].token
    /\ token_gets <= idx

\* two files of one record were initiated
C3_Witness ==
    \E i, j \in DOMAIN net :
        /\ i < j /\ IsInitiation(net[i]) /\ IsInitiation(net[j])
        /\ net[i].ft # net[j].ft

\* C4: for a candidate whose canonical upload filename ({DOI suffix}{suffix})
\* is in the Already-Uploaded Index, no initiation POST, no chunk PATCH and no
\* commit POST is ever issued.
C4_NoUploadOfListedFile ==
    \A j \in DOMAIN filetypes :
        InList(split_last(doi) \o filetypes[j].suffix, ALREADY_UPLOADED_FILES) =>
            \A i \in DOMAIN net : net[i].ft = j => ~IsUploadRequest(net[i])

\* an eligible candidate (policy passed, local file present) was skipped
\* because its name is listed
C4_Witness ==
    \E k \in DOMAIN outcomes :
        /\ outcomes[k].what = "Already uploaded"
        /\ InList(upload_filename, ALREADY_UPLOADED_FILES)
        /\ localfile.exists

NamesAgreementField(filetype) == filetype.upload_to_dl \notin {"yes", "no"}
OutcomeOf(j) == { outcomes[k].what : k \in {k \in DOMAIN outcomes : outcomes[k].ft = j} }

\* C9: a descriptor whose upload_to_dl names an agreement field is skipped with
\* no network call at all when that field is "" on the record; when the field
\* is non-empty and the local file exists, the descriptor reaches the token
\* step (a token has been requested by the time it is done).
C9_AgreementGating ==
    \A j \in 1..(ft - 1) :
        NamesAgreementField(filetypes[j]) =>
            IF sub[filetypes[j].upload_to_dl] = <<>>
            THEN /\ OutcomeOf(j) = {"no agreement from authors"}
                 /\ \A i \in DOMAIN net : net[i].ft # j
            ELSE \/ OutcomeOf(j) = {"No file"}
                 \/ \E i \in DOMAIN net : IsTokenGet(net[i]) /\ net[i].ft <= j

\* a descriptor was skipped for lack of agreement after an earlier descriptor
\* of the same record had been uploaded
C9_Witness ==
    \E k \in DOMAIN outcomes :
        /\ outcomes[k].what = "no agreement from authors"
        /\ \E i \in DOMAIN net : IsCommit(net[i]) /\ net[i].ft < outcomes[k].ft

\* C10: per file the steps occur in the order token, initiation (201), chunks
\* (each 204), commit: an initiation carries a token got before it, a PATCH goes
\* to the Location of an earlier initiation answered 201, and the commit is
\* sent only after chunks adding up to the whole file were each answered 204.
C10_ProtocolOrder ==
    \A i \in DOMAIN net :
        /\ IsInitiation(net[i]) =>
              \E j \in 1..(i - 1) : IsTokenGet(net[j]) /\ net[j].token = net[i].token
        /\ IsPatch(net[i]) =>
              \E j \in 1..(i - 1) :
                  /\ IsInitiation(net[j]) /\ net[j].ft = net[i].ft
                  /\ net[j].status = HTTP_CREATED
                  /\ net[j].location # NoLocation
                  /\ net[j].location = net[i].path
        /\ IsCommit(net[i]) =>
              /\ \E j \in 1..(i - 1) :
                    /\ IsInitiation(net[j]) /\ net[j].ft = net[i].ft
                    /\ net[j].status = HTTP_CREATED
                    /\ SumLengths(PatchesOf(net[i].ft, i)) = net[j].total
              /\ \A j \in DOMAIN net :
                    IsPatch(net[j]) /\ net[j].ft = net[i].ft =>
                        j < i /\ net[j].status = HTTP_NO_CONTENT

\* a file sent in two chunks was committed
C10_Witness ==
    \E i \in DOMAIN net :
        IsCommit(net[i]) /\ net[i].status = HTTP_OK /\ Len(PatchesOf(net[i].ft, i)) = 2

(***************************************************************************)
(* Properties of upload_file alone.                                        *)
(***************************************************************************)
Multiples(n, c) == [k \in 1..n |-> (k - 1) * c]
IsPrefix(s, t) == Len(s) <= Len(t) /\ SubSeq(t, 1, Len(s)) = s

\* C5 as claimed: the Upload-Offset values sent are 0, C, 2C, ..., S - (S mod C)
\* and the last chunk has length S mod C, or C when C divides S.
C5_OffsetsUpToSizeMinusRemainder ==
    (pc = "returned" /\ filesize >= 1) =>
        /\ PatchOffsets = Multiples((filesize - (filesize % chunk_size)) \div chunk_size + 1,
                                    chunk_size)
        /\ PatchLengths[Len(Patches)] =
              IF filesize % chunk_size = 0 THEN chunk_size ELSE filesize % chunk_size

\* C5 as amended: when every PATCH is answered 204 the offsets sent are
\* 0, C, 2C, ... up to the last multiple of C below S (S - (S mod C) when C
\* does not divide S, S - C when it does), and the last chunk has length
\* S mod C, or C when C divides S; a rejected PATCH leaves a prefix of them.
C5_OffsetsBelowSize ==
    LET n == (filesize + chunk_size - 1) \div chunk_size
    IN /\ IsPrefix(PatchOffsets, Multiples(n, chunk_size))
       /\ (pc = "returned" /\ filesize >= 1) =>
             /\ PatchOffsets = Multiples(n, chunk_size)
             /\ PatchOffsets[n] = IF filesize % chunk_size = 0
                                  THEN filesize - chunk_size
                                  ELSE filesize - (filesize % chunk_size)
             /\ PatchLengths[n] = IF filesize % chunk_size = 0
                                  THEN chunk_size ELSE filesize % chunk_size

\* a file whose size is a multiple of the chunk size was sent
C5_Witness ==
    /\ pc = "returned" /\ filesize = 2 * chunk_size /\ chunk_size = MaxChunk
    /\ PatchOffsets = <<0, chunk_size>>

\* C6: each PATCH carries an Upload-Offset equal to the sum of the
\* Content-Length values of the chunks sent before it, and when every PATCH
\* was answered 204 the chunk lengths add up to the Upload-Length declared in
\* the initiation POST.
C6_OffsetIsSumOfLengths ==
    /\ \A k \in DOMAIN Patches :
          /\ Patches[k].offset = SumLengths(SubSeq(Patches, 1, k - 1))
          /\ k > 1 => Patches[k].offset > Patches[k - 1].offset
    /\ pc = "returned" =>
          /\ IsInitiation(net[1])
          /\ net[1].total = filesize
          /\ SumLengths(Patches) = net[1].total

\* chunk size 5, file size 12: offsets 0, 5, 10 and lengths 5, 5, 2
C6_Witness ==
    /\ pc = "returned" /\ chunk_size = 5 /\ filesize = 12
    /\ PatchOffsets = <<0, 5, 10>>
    /\ PatchLengths = <<5, 5, 2>>

(***************************************************************************)
(* Properties of the download.                                             *)
(***************************************************************************)
IsFailed(e) == e.what = "failed"
\* the (record, descriptor) pairs download_files has processed, in order
Pairs ==
    LET p == SelectSeq(dlog, LAMBDA e : e.ft > 0)
    IN [k \in DOMAIN p |-> <<p[k].idx, p[k].ft>>]
\* the pairs in the order of the two nested loops, every row taken
FreshOrder ==
    [k \in 1..(nrows * Len(pcs_filetypes)) |->
        <<(k - 1) \div Len(pcs_filetypes), ((k - 1) % Len(pcs_filetypes)) + 1>>]
ResumedOrder == SelectSeq(FreshOrder, LAMBDA p : p[1] >= start_index)

\* C2 as claimed: a download that failed (download_file returned False) does
\* not end the call of download_files: the call goes on to the next
\* descriptor and to the following records.
C2_FailedDownloadDoesNotEndCall ==
    (\E k \in DOMAIN dlog : IsFailed(dlog[k])) => ~(dpc = "finished" /\ returned # None)

\* C2 as amended: a download that failed ends the call of download_files at
\* once: it is the last pair the call processes and the last request it
\* makes, and the call returns the index of the record in hand; and the call
\* returns an index only after such a failure.
C2_FailedDownloadEndsCall ==
    /\ \A k \in DOMAIN dlog :
          IsFailed(dlog[k]) =>
             /\ k = Len(dlog)
             /\ dpc = "finished"
             /\ returned = <<dlog[k].idx>>
             /\ dnet # <<>>
             /\ dnet[Len(dnet)].idx = dlog[k].idx /\ dnet[Len(dnet)].ft = dlog[k].ft
             /\ calls[Len(calls)].result = "False"
    /\ (dpc = "finished" /\ returned # None) => (dlog # <<>> /\ IsFailed(dlog[Len(dlog)]))

\* a download fails at the first of two descriptors of the first of two rows,
\* and the call has returned index 0 with three pairs left
C2_Witness ==
    /\ dpc = "finished" /\ returned = <<0>>
    /\ nrows = 2 /\ Len(pcs_filetypes) = 2 /\ start_index = 0
    /\ Pairs = <<<<0, 1>>>>
    /\ IsFailed(dlog[1])

\* C7: download_files(start_index = k) resolves no descriptor and requests no
\* file for a row below k, and the pairs it processes are, in order, those a
\* run from 0 processes for the rows from k on: a prefix of them while the
\* call runs or when it ends early, all of them when it returns None.
C7_ResumeCorrectness ==
    /\ \A k \in DOMAIN dlog : dlog[k].idx < start_index => dlog[k].ft = 0
    /\ \A k \in DOMAIN dnet : dnet[k].idx >= start_index
    /\ IsPrefix(Pairs, ResumedOrder)
    /\ (dpc = "finished" /\ returned = None) => Pairs = ResumedOrder

\* a call resumed at row 1 of two rows has skipped row 0 and processed both
\* descriptors of row 1, downloading a file
C7_Witness ==
    /\ dpc = "finished" /\ returned = None
    /\ start_index = 1 /\ nrows = 2
    /\ Pairs = <<<<1, 1>>, <<1, 2>>>>
    /\ dlog[1] = [idx |-> 0, ft |-> 0, what |-> "skipping"]
    /\ \E k \in DOMAIN dlog : dlog[k].what = "downloaded"

\* C8: under "only modified", when download_file is called twice in a row for
\* the same URL and file name, the server answers both calls with the same
\* version of the resource, and the first call returned True with the whole
\* body in the local file, then the second call returns True without opening
\* the local file for writing and leaves the file as the first call left it;
\* the body is transferred once if the first call had to download it, and
\* not at all if the file was current before.
C8_SecondCallSkips ==
    \A i \in 1..(Len(calls) - 1) :
       LET p == calls[i]
           c == calls[i + 1]
       IN (/\ mode = "only modified"
           /\ p.url = c.url /\ p.filename = c.filename
           /\ p.seen.kind = "ok" /\ c.seen = p.seen
           /\ p.result = "True"
           /\ Exists(p.after) /\ p.after.size = p.seen.size)
          => /\ c.result = "True"
             /\ ~c.wrote
             /\ c.before = p.after /\ c.after = p.after
             /\ p.wrote <=> ~(Exists(p.before) /\ p.before.size = p.seen.size)

\* the first call downloads a body of two blocks, the second call finds the
\* file current
C8_Witness ==
    /\ mode = "only modified" /\ Len(calls) = 2
    /\ calls[1].result = "True" /\ calls[1].wrote
    /\ calls[1].seen = Remote("ok", BLOCK + 1, 1)
    /\ calls[1].after = File(BLOCK + 1, 1)
    /\ calls[2].seen = calls[1].seen
    /\ calls[2].result = "True" /\ ~calls[2].wrote
    /\ local[df_filename] = File(BLOCK + 1, 1)

(***************************************************************************)
(* Properties of main.                                                     *)
(***************************************************************************)
InDownloadFiles ==
    dpc \in {"download_files", "rows", "types", "download_file", "open", "read",
             "df_returned", "finished"}

\* C11: every call of download_files that main makes after a call returned an
\* index reads a LIST_FILE written by a later fetch than the one the call
\* that failed had read, so it uses none of that call's links.
C11_RestartReadsNewSnapshot ==
    /\ \A i \in 1..(Len(mlog) - 1) :
          mlog[i].ret # None => mlog[i + 1].gen # mlog[i].gen
    /\ (mlog # <<>> /\ mlog[Len(mlog)].ret # None /\ InDownloadFiles)
          => list_file.gen # mlog[Len(mlog)].gen

\* the outcomes with which download_files goes on to the next descriptor
Processed == {"downloaded", "already downloaded", "not submitted", "field not in CSV"}

\* C12: when download_files returns an index it is that of the row in hand,
\* the row whose download failed, every row from start_index up to it has had
\* each selected descriptor processed, and the index lies in
\* start_index..len(submissions)-1; when download_files comes to the end of
\* the rows it returns None, which is no index (not even 0), and no download
\* has failed.
C12_ReturnedIndex ==
    dpc = "finished" =>
       IF returned # None
       THEN /\ returned = <<didx>>
            /\ dlog # <<>> /\ IsFailed(dlog[Len(dlog)]) /\ dlog[Len(dlog)].idx = returned[1]
            /\ calls[Len(calls)].result = "False"
            /\ calls[Len(calls)].filename =
                  DownloadFilename(PaperId(returned[1]), pcs_filetypes[dlog[Len(dlog)].ft])
            /\ start_index <= returned[1] /\ returned[1] < nrows
            /\ \A i \in start_index..(returned[1] - 1) : \A j \in 1..Len(pcs_filetypes) :
                  \E k \in DOMAIN dlog :
                     dlog[k].idx = i /\ dlog[k].ft = j /\ dlog[k].what \in Processed
       ELSE /\ returned \notin {<<i>> : i \in 0..nrows}
            /\ \A k \in DOMAIN dlog : ~IsFailed(dlog[k])
            /\ didx = nrows

\* row 0 of two rows is processed in full, a download of row 1 fails, and the
\* call has returned 1
C12_Witness ==
    /\ dpc = "finished" /\ returned = <<1>>
    /\ start_index = 0 /\ nrows = 2 /\ Len(pcs_filetypes) = 2
    /\ Len(Pairs) >= 3
    /\ \E k \in DOMAIN dlog : dlog[k].idx = 0 /\ dlog[k].what = "downloaded"

\* the cell of the row and column of a pair that download_files has logged
CellOf(e) == submissions[e.idx + 1][pcs_filetypes[e.ft].pcs_field]
IsBlank(cell) == \A k \in DOMAIN cell : isspace(cell[k])
RequestsFor(e) == {k \in DOMAIN dnet : dnet[k].idx = e.idx /\ dnet[k].ft = e.ft /\ dnet[k].sent}
CallsFor(e) ==
    {k \in DOMAIN calls :
        calls[k].filename = DownloadFilename(PaperId(e.idx), pcs_filetypes[e.ft])}

\* C13: a pair whose column is in LIST_FILE and whose cell is empty or holds
\* only whitespace, however long, is logged as not submitted: no request is
\* sent for it, no local file is written for it, and download_files does not
\* return an index because of it.
C13_BlankFieldIsNotSubmitted ==
    \A k \in DOMAIN dlog :
       LET e == dlog[k]
       IN (/\ e.ft > 0
           /\ pcs_filetypes[e.ft].pcs_field \in columns
           /\ IsBlank(CellOf(e)))
          => /\ e.what = "not submitted"
             /\ RequestsFor(e) = {}
             /\ \A c \in CallsFor(e) : ~calls[c].wrote
             /\ ~(dpc = "finished" /\ returned = <<e.idx>> /\ k = Len(dlog))

\* C14: a pair whose descriptor names a column that LIST_FILE does not have
\* is logged as such and passed over: urlopen is not called and no file is
\* touched for it, the KeyError goes no further, download_files does not
\* return an index because of it, and the descriptors and rows after it are
\* processed in their order, all of them when the call returns None.
C14_AbsentFieldSkipsOnePair ==
    /\ dexc # "KeyError"
    /\ \A k \in DOMAIN dlog :
          LET e == dlog[k]
          IN (e.ft > 0 /\ pcs_filetypes[e.ft].pcs_field \notin columns)
             => /\ e.what = "field not in CSV"
                /\ \A r \in DOMAIN dnet : ~(dnet[r].idx = e.idx /\ dnet[r].ft = e.ft)
                /\ CallsFor(e) = {}
                /\ local[DownloadFilename(PaperId(e.idx), pcs_filetypes[e.ft])] = UnknownFile
                /\ ~(dpc = "finished" /\ returned # None /\ k = Len(dlog))
    /\ \A k \in DOMAIN dlog :
          dlog[k].what = "field not in CSV" => pcs_filetypes[dlog[k].ft].pcs_field \notin columns
    /\ IsPrefix(Pairs, ResumedOrder)
    /\ (dpc = "finished" /\ returned = None) => Pairs = ResumedOrder

\* LIST_FILE has no video column and the video descriptor comes first: the
\* pdf of the same row and the pdf of the next row are downloaded after the
\* pair was passed over
C14_Witness ==
    /\ dpc = "finished" /\ returned = None
    /\ pcs_filetypes = <<VIDEO, PDF>> /\ columns = {"Paper ID", "pdf"}
    /\ nrows = 2 /\ start_index = 0
    /\ Len(dlog) = 4
    /\ dlog[1] = [idx |-> 0, ft |-> 1, what |-> "field not in CSV"]
    /\ dlog[2] = [idx |-> 0, ft |-> 2, what |-> "downloaded"]
    /\ dlog[3] = [idx |-> 1, ft |-> 1, what |-> "field not in CSV"]
    /\ dlog[4] = [idx |-> 1, ft |-> 2, what |-> "downloaded"]

PN100 == <<"p","n","1","0","0">>
PN100_PDF ==
    <<"c","h","i","2","3","b","_","P","D","F","/","p","n","1","0","0",".","p","d","f">>
\* LIST_FILE has the one row pn100 with a link in its pdf cell and an empty
\* video cell, the descriptors pdf and video are selected, and the call of
\* download_file for the pdf wrote the file and returned True
Pn100Run ==
    /\ dpc = "finished"
    /\ nrows = 1 /\ start_index = 0
    /\ pcs_filetypes = <<PDF, VIDEO>> /\ columns = {"Paper ID", "pdf", "video"}
    /\ submissions[1] # NoRow
    /\ submissions[1]["Paper ID"] = PN100
    /\ WellFormed(submissions[1]["pdf"])
    /\ submissions[1]["video"] = <<>>
    /\ calls # <<>> /\ calls[1].result = "True" /\ calls[1].wrote

LastRequest == net[Len(net)]
\* the requests sent for the file in hand
RequestsOfFile == SelectSeq(net, LAMBDA r : r.sub = idx /\ r.ft = ft)
PatchesOfFile == SelectSeq(RequestsOfFile, LAMBDA r : r.method = "PATCH")
\* what the operator is left with when the run ends on an exception: its type
\* and the function the traceback ends in
Signal == <<exc, raised_in>>
\* every chunk of the file was acknowledged and the commit was refused
Dangling ==
    /\ pc = "aborted" /\ net # <<>>
    /\ LastRequest.target = "SUBMIT_URL" /\ ~CommitAccepted(LastRequest.status)
    /\ \A i \in DOMAIN PatchesOfFile : ChunkAccepted(PatchesOfFile[i].status)
\* the initiation or a chunk was refused
CleanFailure ==
    /\ pc = "aborted" /\ net # <<>>
    /\ \/ LastRequest.target = "UPLOAD_URL" /\ ~InitiationAccepted(LastRequest.status)
       \/ LastRequest.method = "PATCH" /\ ~ChunkAccepted(LastRequest.status)

TokenMissing(r) == r.target = "TOKEN_URL" /\ r.token = NoToken
TokenWasMissing == \E i \in DOMAIN net : TokenMissing(net[i])

\* C17: when the page answered to the token GET carries no data-token, the
\* upload run ends there: get_token returns no token (it raises), the GET is
\* the last request of the run, so that no initiation POST, PATCH or commit
\* POST follows for this file, a later file or a later record, and no further
\* row is read.
C17_MissingTokenStopsRun ==
    /\ [](TokenWasMissing =>
            /\ TokenMissing(LastRequest)
            /\ pc = "aborted" /\ Signal = <<"AttributeError", "get_token">>
            /\ token = NoToken)
    /\ [][TokenWasMissing => UNCHANGED <<net, idx, ft, token, committed, outcomes>>]_vars
C17_Witness ==
    /\ TokenWasMissing
    /\ idx < MaxSubs /\ ft < Len(filetypes)      \* a later file and a later record remain

\* C18: within one upload run no canonical upload filename is uploaded and
\* committed twice, whatever the rows and the selected descriptors are, two
\* rows with the same last DOI part and two descriptors with the same suffix
\* included.
C18_NoFileCommittedTwice ==
    \A i, j \in DOMAIN committed : i # j => committed[i] # committed[j]

\* some selected descriptor names a ready_field that the row leaves empty
SomeFieldNotReady(fts, s) ==
    \E k \in DOMAIN fts : fts[k].ready_field # "" /\ s[fts[k].ready_field] = <<>>

\* C19: when a selected descriptor, in whatever position of the list, has a
\* non-empty ready_field and the row's value of that field is empty, nothing
\* is requested for that paper: no token GET, no initiation POST, no PATCH
\* and no commit POST.
C19_NotReadyPaperIsLeftAlone ==
    net # <<>> => ~SomeFieldNotReady(filetypes, sub)

(***************************************************************************)
(* Properties of the download: the freshness policy.                       *)
(***************************************************************************)
\* the table: whether a file is to be fetched, by mode, local file and the
\* size the server announces
PolicyFetches(m, l, remote_size) ==
    CASE m = "only new"      -> l.state # "file"
      [] m = "only modified" -> l.state # "file" \/ l.size # remote_size
      [] OTHER               -> TRUE
\* the calls of download_file that came to a urlopen
CallsWithRequest ==
    {i \in DOMAIN calls : ~(mode = "only new" /\ calls[i].before.state = "file")}
RequestInFlight == IF dpc \in {"open", "read"} THEN 1 ELSE 0

\* C20: what download_file decides is what the table says, for every mode,
\* local file and announced size.  A call writes the file only when the table
\* says fetch, and then the file holds what the server sent, not what it held
\* before; a call returns True without writing only when the table says skip;
\* a call the server answers decides one or the other; and under "only new" a
\* call that finds the local file sends no request at all.
C20_FreshnessPolicy ==
    /\ \A i \in DOMAIN calls :
          LET c == calls[i]
              fetch == PolicyFetches(mode, c.before, c.seen.size)
          IN /\ c.wrote => fetch /\ c.after.state = "file" /\ c.after.ver = c.seen.ver
             /\ (c.result = "True" /\ ~c.wrote) => ~fetch /\ c.after = c.before
             /\ c.seen.kind = "ok" => (c.wrote <=> fetch)
             /\ (mode = "only new" /\ c.before.state = "file") => c.result = "True" /\ ~c.wrote
    /\ Len(dnet) = Cardinality(CallsWithRequest) + RequestInFlight
\* two calls under one mode: one fetched, the other skipped
C20_Witness ==
    /\ Len(calls) = 2
    /\ calls[1].wrote /\ calls[1].result = "True"
    /\ ~calls[2].wrote /\ calls[2].result = "True"
    /\ mode = "only new" /\ Len(dnet) = 1

\* the call wrote a proper prefix of the body it was answered with
Interrupted(c) == c.wrote /\ c.after.size < c.seen.size
ReportedCurrent(c) == c.result = "True" /\ ~c.wrote

\* C21 as stated: after a download that was interrupted with a proper prefix
\* of the body written, the next call under "only modified" that the server
\* answers finds the size of the partial file different from the announced
\* size and downloads the file again; the partial file is never reported as
\* already downloaded.
C21_PartialFileIsNeverCurrent ==
    mode = "only modified" =>
       \A i \in 1..(Len(calls) - 1) :
          LET p == calls[i]
              c == calls[i + 1]
          IN (Interrupted(p) /\ c.seen.kind = "ok") =>
                /\ c.before = p.after
                /\ c.before.size # c.seen.size
                /\ c.wrote /\ ~ReportedCurrent(c)
                /\ c.after.ver = c.seen.ver

\* C21, amended: after an interrupted download the next call under "only
\* modified" that the server answers downloads the file again whenever the
\* server announces a length other than the size of the partial file, in
\* particular the length it announced to the interrupted call; when the
\* resource has changed meanwhile to a body of just the partial file's size,
\* the partial file is reported as already downloaded and kept.
C21_PartialFileIsCurrentOnlyBySize ==
    mode = "only modified" =>
       \A i \in 1..(Len(calls) - 1) :
          LET p == calls[i]
              c == calls[i + 1]
          IN (Interrupted(p) /\ c.seen.kind = "ok") =>
                /\ c.before = p.after
                /\ p.after.size # p.seen.size
                /\ c.seen.size # p.after.size =>
                      c.wrote /\ ~ReportedCurrent(c) /\ c.after.ver = c.seen.ver
                /\ c.seen.size = p.after.size =>
                      ReportedCurrent(c) /\ c.after = p.after
\* the first call is cut off after one block of two, the second call is
\* answered with the same body and writes it whole
C21_Witness ==
    /\ mode = "only modified" /\ Len(calls) = 2
    /\ Interrupted(calls[1]) /\ calls[1].after.size = BLOCK
    /\ calls[2].seen = calls[1].seen
    /\ calls[2].wrote /\ calls[2].after.size = BLOCK + 1

(***************************************************************************)
(* Properties of the upload: names.                                        *)
(***************************************************************************)
\* what follows the last "/" of s, read from the end
RECURSIVE AfterLastSlash(_)
AfterLastSlash(s) ==
    IF s = <<>> \/ s[Len(s)] = "/" THEN <<>>
    ELSE Append(AfterLastSlash(SubSeq(s, 1, Len(s) - 1)), s[Len(s)])
IsBlankDoi(d) == \A i \in DOMAIN d : isspace(d[i])
\* the DOI of a row: its DOI field or, when that is blank, the fallback
DoiOf(s) == IF IsBlankDoi(s["DOI"]) THEN DOI_FALLBACK[s["Paper ID"]] ELSE s["DOI"]
CanonicalName(s, filetype) == AfterLastSlash(DoiOf(s)) \o filetype.suffix
LocalName(s, filetype) ==
    TRACK_ID \o <<"_">> \o filetype.directory \o <<"/">> \o s["Paper ID"] \o filetype.suffix

\* C22: every request that uploads or commits a file names it
\* {what follows the last "/" of the DOI}{suffix of the descriptor}, the DOI
\* being the DOI field of the row or, when that is blank, the fallback DOI of
\* its Paper ID; the local file read for it is
\* {track id}_{directory}/{Paper ID}{suffix}.
C22_UploadNames ==
    /\ \A i \in DOMAIN net :
          net[i].target \in {"UPLOAD_URL", "UPLOAD_PATH", "SUBMIT_URL"} =>
             /\ net[i].filename = CanonicalName(sub, filetypes[net[i].ft])
             /\ net[i].filename # filetypes[net[i].ft].suffix
    /\ pc \in {"post", "patch", "returned"} =>
          /\ localfile.exists
          /\ localfile.path = LocalName(sub, filetypes[ft])
          /\ filesize = localfile.size
\* a file named after the fallback DOI is committed
C22_Witness ==
    /\ committed # <<>> /\ net # <<>>
    /\ LastRequest.target = "SUBMIT_URL"
    /\ IsBlankDoi(sub["DOI"])
    /\ LastRequest.filename = <<"b">> \o DOT_VTT

\* the candidate passes the checks on policy, agreement and index (its local
\* file may exist)
MayBeEligible(s, filetype) ==
    /\ filetype.upload_to_dl # "no"
    /\ filetype.upload_to_dl = "yes" \/ s[filetype.upload_to_dl] # <<>>
    /\ ~InList(CanonicalName(s, filetype), ALREADY_UPLOADED_FILES)

\* C23: a token is requested only when a candidate passes all four checks
\* (policy not "no", agreement given, local file present, name not in the
\* Already-Uploaded Index): a row none of whose candidates passes them has no
\* token GET.
C23_TokenOnlyForEligibleCandidate ==
    \A i \in DOMAIN net :
       net[i].target = "TOKEN_URL" =>
          \E k \in DOMAIN filetypes : MayBeEligible(sub, filetypes[k])

\* a request of upload_file that the portal refused
Rejected(r) ==
    \/ r.target = "UPLOAD_URL" /\ ~InitiationAccepted(r.status)
    \/ r.method = "PATCH" /\ ~ChunkAccepted(r.status)
SomeRejected == \E i \in DOMAIN net : Rejected(net[i])

\* C24: once the portal has refused the initiation (a status other than 201)
\* or a chunk (a status other than 204), nothing more is requested for that
\* file: the refused request is the last one, no PATCH follows a refused
\* initiation, no chunk follows a refused chunk and the refused chunk is not
\* sent again, upload_file returns no upload path and no commit is posted.
C24_NothingAfterRejection ==
    /\ [](SomeRejected =>
            /\ Rejected(LastRequest)
            /\ \A i \in 1..(Len(net) - 1) : ~Rejected(net[i])
            /\ pc = "aborted" /\ Signal = <<"AssertionError", "upload_file">>
            /\ \A i \in DOMAIN RequestsOfFile : RequestsOfFile[i].target # "SUBMIT_URL")
    /\ [][SomeRejected => UNCHANGED <<net, url, committed, pc>>]_vars
\* the second chunk of a file is refused
C24_Witness ==
    /\ SomeRejected
    /\ Len(PatchesOfFile) = 2
    /\ ChunkAccepted(PatchesOfFile[1].status) /\ ~ChunkAccepted(PatchesOfFile[2].status)

\* C25: every commit POST carries exactly one file-name / file-url pair: the
\* canonical upload filename of the file just uploaded and the Location that
\* the portal returned to the initiation POST of that same file; the commit
\* comes directly after the last request of that upload, and the next file is
\* initiated only after it.
C25_OneFilePerCommit ==
    /\ \A i \in DOMAIN net :
          IsCommit(net[i]) =>
             /\ Len(net[i].files) = 1
             /\ net[i].files[1][1] = CanonicalName(sub, filetypes[net[i].ft])
             /\ net[i].files[1][2] # NoLocation
             /\ \E j \in 1..(i - 1) :
                   /\ IsInitiation(net[j]) /\ net[j].sub = net[i].sub /\ net[j].ft = net[i].ft
                   /\ net[j].status = HTTP_CREATED
                   /\ net[j].location = net[i].files[1][2]
                   /\ net[j].filename = net[i].files[1][1]
             /\ i > 1 /\ (IsInitiation(net[i - 1]) \/ IsPatch(net[i - 1]))
             /\ net[i - 1].ft = net[i].ft
    /\ \A j, k \in DOMAIN net :
          (j < k /\ IsInitiation(net[j]) /\ IsInitiation(net[k])) =>
             \E m \in (j + 1)..(k - 1) : IsCommit(net[m]) /\ net[m].ft = net[j].ft
    /\ pc = "filetype" =>
          \A j \in DOMAIN net : IsInitiation(net[j]) =>
             \E m \in (j + 1)..Len(net) : IsCommit(net[m]) /\ net[m].ft = net[j].ft
\* two files of one row, each committed on its own
C25_Witness ==
    /\ Len(SelectSeq(net, IsCommit)) = 2
    /\ IsCommit(LastRequest) /\ LastRequest.status = HTTP_OK
    /\ LastRequest.ft = 2

\* C26: the Already-Uploaded Index is built once, when upload() starts and
\* before the first row is read, and is left as it is by every later step of
\* the run: a skip, the token GET, an upload, a commit.
C26_IndexIsReadOnly ==
    /\ [](pc = "start" => idx = 0 /\ net = <<>> /\ ALREADY_UPLOADED_FILES = <<>>)
    /\ [][pc # "start" => /\ ALREADY_UPLOADED_FILES' = ALREADY_UPLOADED_FILES
                          /\ pc' # "start"]_vars
\* a file was committed that the index, not empty, does not hold
C26_Witness ==
    /\ committed # <<>>
    /\ ALREADY_UPLOADED_FILES # <<>>
    /\ ~InList(committed[1], ALREADY_UPLOADED_FILES)
    /\ pc = "loop" /\ idx = MaxSubs

\* the call came to a urlopen that failed on the side of the server: an HTTP
\* error status, a malformed URL, an unreachable host or a timeout, an answer
\* without Content-Length
RemoteFailure(i) ==
    /\ i \in CallsWithRequest
    /\ \/ calls[i].seen.kind \in {"http_error", "url_error", "no_length"}
       \/ ~WellFormed(calls[i].url)

\* C27: whatever fails on the side of the server, download_file returns
\* False and lets no exception out: an HTTP error status, a malformed URL, an
\* unreachable host or a connection that times out, an answer that carries no
\* Content-Length.
C27_RemoteFailureReturnsFalse ==
    /\ \A i \in DOMAIN calls :
          /\ calls[i].result \in {"True", "False"}
          /\ RemoteFailure(i) => calls[i].result = "False"
    /\ dpc # "crashed" /\ dexc = NoException

(***************************************************************************)
(* Properties of the download: the loop of main.                           *)
(***************************************************************************)
\* the rows that the call of download_files in hand has not skipped
RowsTouched == {dlog[k].idx : k \in {j \in DOMAIN dlog : dlog[j].what # "skipping"}}

\* C29: over the restarts of main the index never goes down: what
\* download_files(start_index) returns is at least start_index, the next call
\* starts there, and a row below an index once returned is processed by no
\* later call.
C29_ResumeIndexNeverDecreases ==
    /\ (dpc = "finished" /\ returned # None) => returned[1] >= start_index
    /\ \A i \in DOMAIN mlog :
          mlog[i].ret # None =>
             /\ mlog[i].ret[1] >= mlog[i].start
             /\ start_index >= mlog[i].ret[1]
             /\ \A r \in RowsTouched : r >= mlog[i].ret[1]
             /\ \A k \in DOMAIN dnet : dnet[k].idx >= mlog[i].ret[1]
    /\ \A i \in 1..(Len(mlog) - 1) :
          /\ mlog[i].ret # None
          /\ mlog[i + 1].start = mlog[i].ret[1]
          /\ mlog[i + 1].start >= mlog[i].start
\* main has restarted at row 0 and then at row 1
C29_Witness ==
    /\ Len(mlog) = 2
    /\ mlog[1].ret = <<0>> /\ mlog[2].ret = <<1>>
    /\ start_index = 1 /\ RowsTouched = {1}
    /\ dpc = "finished"

(***************************************************************************)
(* Properties of the upload: the Already-Uploaded Index.                   *)
(***************************************************************************)
\* the listing has a row of that name that is not flagged excluded
ListedNotExcluded(name) ==
    \E i \in DOMAIN listing : listing[i]["File Name"] = name /\ ~listing[i]["excluded"]
ListedExcluded(name) ==
    \E i \in DOMAIN listing : listing[i]["File Name"] = name /\ listing[i]["excluded"]
IndexedRows == {i \in DOMAIN listing : ~listing[i]["excluded"]}

\* C30: the Already-Uploaded Index of upload holds the File Name of every row
\* of the listing that is not flagged excluded, and nothing else; a name that
\* the listing has in excluded rows only is not in the index, and a candidate
\* of that name that passes the other checks is uploaded.
C30_IndexLeavesOutExcluded ==
    /\ [](pc # "start" =>
            /\ Len(ALREADY_UPLOADED_FILES) = Cardinality(IndexedRows)
            /\ \A n \in ListedNames : InList(n, ALREADY_UPLOADED_FILES) <=> ListedNotExcluded(n)
            /\ \A i \in DOMAIN ALREADY_UPLOADED_FILES : ListedNotExcluded(ALREADY_UPLOADED_FILES[i])
            /\ \A i \in DOMAIN outcomes :
                  outcomes[i].what = "Already uploaded" =>
                     ListedNotExcluded(CanonicalName(sub, filetypes[outcomes[i].ft])))
    /\ [][(pc = "dedup" /\ ~ListedNotExcluded(upload_filename)) =>
             pc' = "post" /\ filesize' = localfile.size]_vars
\* a file that the listing names in an excluded row is uploaded and committed
C30_Witness ==
    /\ net # <<>> /\ IsCommit(LastRequest) /\ LastRequest.status = HTTP_OK
    /\ ListedExcluded(LastRequest.filename)
    /\ ~InList(LastRequest.filename, ALREADY_UPLOADED_FILES)

\* download_files has returned an index once more than the restarts that are
\* followed here
RestartsNotFollowed == dpc = "finished" /\ returned # None /\ Len(mlog) = MaxRestarts

\* C28: main comes to "Done!" exactly when a call of download_files has
\* returned None; nothing but the returned value decides whether main
\* restarts, however often it has restarted before; and every run of main
\* with some descriptor selected comes to "Done!" unless downloads keep
\* failing (here: as long as main is followed through its restarts).
C28_MainReachesDone ==
    /\ [](dpc = "done" => mlog # <<>> /\ mlog[Len(mlog)].ret = None /\ returned = None)
    /\ []((dpc = "finished" /\ returned = None) => ENABLED MainDone /\ ~ENABLED MainRestart)
    /\ []((dpc = "finished" /\ returned # None /\ Len(mlog) < MaxRestarts)
             => ENABLED MainRestart /\ ~ENABLED MainDone)
    /\ (pcs_filetypes # <<>> => <>(dpc = "done" \/ RestartsNotFollowed))

=============================================================================
